---- MODULE Spec2Model ----
(***************************************************************************)
(* A model of zsnapmgr: the digest-writing sink (hash_stream.rs), the      *)
(* send/hash pipeline (zfs.rs, Zfs::send), the passphrase hand-over        *)
(* (lib.rs, ZSnapMgr::backup) and the backup reconciliation                *)
(* (main.rs, gather_volumes, and backups.rs).                              *)
(*                                                                         *)
(* Text (file names, telemetry lines, command lines) is a sequence of      *)
(* one-character strings; file data is a sequence of bytes.                *)
(***************************************************************************)
EXTENDS Integers, Sequences, FiniteSets, TLC

(***************************************************************************)
(* Bounds of the model.                                                    *)
(***************************************************************************)
\* size of the read buffer of write_file_and_sidecar, scaled down from the
\* 8192 bytes of the source so that multi-chunk transfers stay enumerable
BufSize == 2
\* the most bytes the pipeline writes to its standard output
MaxData == BufSize + 1
\* the most lines the pipeline writes to its standard error
MaxLines == 2
\* the greatest exit code of the pipeline
MaxExit == 1
\* the most bytes pushed through a stand-alone HashingWrite
MaxSinkBytes == 3
\* the most files in the backup directory
MaxFiles == 2

(***************************************************************************)
(* Text helpers (the str methods the source uses).                         *)
(***************************************************************************)
TAB == "\t"
NL == "\n"

Digits == {"0", "1", "2", "3", "4", "5", "6", "7", "8", "9"}

DigitVal(c) ==
  CASE c = "0" -> 0 [] c = "1" -> 1 [] c = "2" -> 2 [] c = "3" -> 3
    [] c = "4" -> 4 [] c = "5" -> 5 [] c = "6" -> 6 [] c = "7" -> 7
    [] c = "8" -> 8 [] c = "9" -> 9

\* str::starts_with
StartsWith(s, p) == Len(s) >= Len(p) /\ SubSeq(s, 1, Len(p)) = p

\* str::ends_with
EndsWith(s, p) == Len(s) >= Len(p) /\ SubSeq(s, Len(s) - Len(p) + 1, Len(s)) = p

\* str::find with a string pattern: the 0-based offset of the first match,
\* -1 for None
Find(s, p) ==
  LET hits == {i \in 1..(Len(s) - Len(p) + 1) : SubSeq(s, i, i + Len(p) - 1) = p}
  IN IF hits = {} THEN -1
     ELSE (CHOOSE i \in hits : \A j \in hits : i <= j) - 1

\* the 1-based position of the first c in s, 0 when there is none
IndexOf(s, c) ==
  LET hits == {i \in 1..Len(s) : s[i] = c}
  IN IF hits = {} THEN 0 ELSE CHOOSE i \in hits : \A j \in hits : i <= j

\* str::split(c): the fields between the separators, at least one field
RECURSIVE Split(_, _)
Split(s, c) ==
  LET i == IndexOf(s, c)
  IN IF i = 0 THEN <<s>>
     ELSE <<SubSeq(s, 1, i - 1)>> \o Split(SubSeq(s, i + 1, Len(s)), c)

\* str::splitn(2, c): split at the first separator only
SplitN2(s, c) ==
  LET i == IndexOf(s, c)
  IN IF i = 0 THEN <<s>>
     ELSE <<SubSeq(s, 1, i - 1), SubSeq(s, i + 1, Len(s))>>

\* str::replace(from, to) for one-character patterns
Replace(s, from, to) == [i \in 1..Len(s) |-> IF s[i] = from THEN to ELSE s[i]]

\* the value of a string of decimal digits
RECURSIVE DecValue(_)
DecValue(s) ==
  IF Len(s) = 0 THEN 0
  ELSE 10 * DecValue(SubSeq(s, 1, Len(s) - 1)) + DigitVal(s[Len(s)])

\* a string of digits without its leading zeros
RECURSIVE StripZeros(_)
StripZeros(s) ==
  IF Len(s) > 0 /\ s[1] = "0" THEN StripZeros(SubSeq(s, 2, Len(s))) ELSE s

\* a <= b for two strings of digits without leading zeros
RECURSIVE DigitsLE(_, _)
DigitsLE(a, b) ==
  IF Len(a) # Len(b) THEN Len(a) < Len(b)
  ELSE IF Len(a) = 0 THEN TRUE
  ELSE IF a[1] # b[1] THEN DigitVal(a[1]) < DigitVal(b[1])
  ELSE DigitsLE(Tail(a), Tail(b))

\* u64::MAX and u32::MAX in decimal
U64MaxDigits ==
  <<"1", "8", "4", "4", "6", "7", "4", "4", "0", "7",
    "3", "7", "0", "9", "5", "5", "1", "6", "1", "5">>
U32MaxDigits == <<"4", "2", "9", "4", "9", "6", "7", "2", "9", "5">>

\* str::parse::<uN>(): an optional '+', then one or more digits, the value
\* at most the type's maximum; anything else is Err.  The value is computed
\* for the numbers of up to nine digits, which are the ones the model feeds.
ParseUint(s, maxDigits) ==
  LET body == IF Len(s) > 0 /\ s[1] = "+" THEN SubSeq(s, 2, Len(s)) ELSE s
      wellFormed == Len(body) > 0 /\ \A i \in 1..Len(body) : body[i] \in Digits
      sig == StripZeros(body)
  IN IF wellFormed /\ DigitsLE(sig, maxDigits)
     THEN [ok |-> TRUE, val |-> IF Len(sig) <= 9 THEN DecValue(sig) ELSE 999999999]
     ELSE [ok |-> FALSE, val |-> 0]

(***************************************************************************)
(* hash_stream.rs: the digest-writing sink.                                *)
(***************************************************************************)
\* the values of the bytes the model moves
ByteVals == {0, 1}

\* all byte strings of length lo..hi
BytesOfLen(lo, hi) == UNION {[1..n -> ByteVals] : n \in lo..hi}

\* ring's Context::finish: the digest of the bytes fed to the context.  The
\* model's digest is a two-byte rolling checksum standing for SHA-256: a
\* deterministic function of the whole byte string, order included.
RECURSIVE Roll(_, _)
Roll(h, bytes) ==
  IF Len(bytes) = 0 THEN h
  ELSE Roll((h * 31 + Head(bytes) + 1) % 65536, Tail(bytes))

Digest(bytes) == LET h == Roll(7, bytes) IN <<h \div 256, h % 256>>

HexDigits ==
  <<"0", "1", "2", "3", "4", "5", "6", "7", "8", "9", "a", "b", "c", "d", "e", "f">>

\* the fold of format!("{:02x}", byte) over the digest
RECURSIVE HexString(_)
HexString(bytes) ==
  IF Len(bytes) = 0 THEN <<>>
  ELSE <<HexDigits[(Head(bytes) \div 16) + 1], HexDigits[(Head(bytes) % 16) + 1]>>
       \o HexString(Tail(bytes))

\* HashingWrite::new
HashingWrite_new == [ctx |-> <<>>, inner |-> <<>>]

\* mutant: the context is restarted by every write
CtxUpdate_Mut(ctx, buf) == buf

\* self.ctx.update(buf): the context takes the whole buffer
CtxUpdate(ctx, buf) == ctx \o buf

\* self.inner.write(buf): the downstream sink takes the first n bytes, or
\* nothing when it fails
InnerWrite(inner, buf, n, err) == IF err THEN inner ELSE inner \o SubSeq(buf, 1, n)

\* HashingWrite::write: the new sink and the returned count (-1 for Err)
HashingWrite_write(h, buf, n, err) ==
  [h |-> [ctx |-> CtxUpdate(h.ctx, buf), inner |-> InnerWrite(h.inner, buf, n, err)],
   ret |-> IF err THEN -1 ELSE n]

\* HashingWrite::finish
HashingWrite_finish(h) == Digest(h.ctx)

(***************************************************************************)
(* The sink on its own: any sequence of writes, then finish.               *)
(***************************************************************************)
VARIABLES
  sink,        \* the HashingWrite: its hash context and its downstream sink
  sinkRet,     \* what the last write returned (-2 before the first write)
  sinkLast,    \* the buffer handed to the last write
  sinkDone,    \* finish() was called
  sinkDigest   \* what finish() returned

sinkVars == <<sink, sinkRet, sinkLast, sinkDone, sinkDigest>>

SinkInit ==
  /\ sink = HashingWrite_new
  /\ sinkRet = -2
  /\ sinkLast = <<>>
  /\ sinkDone = FALSE
  /\ sinkDigest = <<>>

SinkWrite ==
  /\ ~sinkDone
  /\ \E buf \in BytesOfLen(0, BufSize) :
       /\ Len(sink.ctx) + Len(buf) <= MaxSinkBytes
       /\ \E n \in 0..Len(buf), err \in BOOLEAN :
            LET r == HashingWrite_write(sink, buf, n, err)
            IN /\ sink' = r.h
               /\ sinkRet' = r.ret
               /\ sinkLast' = buf
  /\ UNCHANGED <<sinkDone, sinkDigest>>

SinkFinish ==
  /\ ~sinkDone
  /\ sinkDone' = TRUE
  /\ sinkDigest' = HashingWrite_finish(sink)
  /\ UNCHANGED <<sink, sinkRet, sinkLast>>

(***************************************************************************)
(* zfs.rs: the telemetry the pipeline writes to its standard error.        *)
(***************************************************************************)
PfxIncremental == <<"i", "n", "c", "r", "e", "m", "e", "n", "t", "a", "l", TAB>>
PfxFull == <<"f", "u", "l", "l", TAB>>
PfxSize == <<"s", "i", "z", "e", TAB>>

\* the lines the modelled pipeline may write
LineIncremental == <<"i", "n", "c", "r", "e", "m", "e", "n", "t", "a", "l", TAB, "p", "/", "a", "@", "1">>
LineFull == <<"f", "u", "l", "l", TAB, "p", "/", "a">>
LineSize == <<"s", "i", "z", "e", TAB, "5">>
LineSizeZero == <<"s", "i", "z", "e", TAB, "0">>
LineSizeBad == <<"s", "i", "z", "e", TAB, "5", "k">>
LineProgress == <<"0", "0", ":", "0", "0", ":", "0", "1", TAB, "3", TAB, "5">>
LineBadSoFar == <<"0", "0", ":", "0", "0", ":", "0", "1", TAB, "x", TAB, "5">>
LineBadTotal == <<"0", "0", ":", "0", "0", ":", "0", "1", TAB, "3", TAB, "x">>
LineBadTime == <<"0", "0", ":", "0", "0", ":", "0", "1", ":", "x", TAB, "3", TAB, "5">>
LineTimeRange == <<"2", "4", ":", "0", "0", ":", "0", "0", TAB, "3", TAB, "5">>
LineGarbage == <<"w", "a", "r", "n", "i", "n", "g">>

TelemetryLines ==
  {LineIncremental, LineFull, LineSize, LineSizeZero, LineSizeBad, LineProgress,
   LineBadSoFar, LineBadTotal, LineBadTime, LineTimeRange, LineGarbage}

\* parts[0].split(':').filter_map(|x| x.parse::<u32>().ok()).collect():
\* the fields that parse, the others silently dropped
TimeParts(field) ==
  LET fields == Split(field, ":")
      parsed == SelectSeq(fields, LAMBDA x : ParseUint(x, U32MaxDigits).ok)
  IN [i \in 1..Len(parsed) |-> ParseUint(parsed[i], U32MaxDigits).val]

\* chrono's and_hms accepts an hour below 24, a minute and a second below 60
\* and panics on anything else
ValidHms(t) == t[1] < 24 /\ t[2] < 60 /\ t[3] < 60

\* One turn of send's loop over a line of standard error; size is the value
\* of the local variable before the line.  The outcome is what the loop does
\* next: "Ignore" and "Size" and "Progress" go on reading, "Empty" breaks out
\* of the loop, "Protocol" returns Err("Unrecognized output"), "Panic" unwinds
\* out of send (unwrap of a failed parse, and_hms of an invalid time).
ProcessLine(line, size) ==
  IF StartsWith(line, PfxIncremental) \/ StartsWith(line, PfxFull)
  THEN [kind |-> "Ignore", size |-> size]
  ELSE IF StartsWith(line, PfxSize)
  THEN LET n == ParseUint(SubSeq(line, 6, Len(line)), U64MaxDigits)
       IN IF ~n.ok THEN [kind |-> "Panic", size |-> size]
          ELSE IF n.val = 0 THEN [kind |-> "Empty", size |-> 0]
          ELSE [kind |-> "Size", size |-> n.val]
  ELSE LET parts == Split(line, TAB)
       IN IF Len(parts) # 3 THEN [kind |-> "Protocol", size |-> size]
          ELSE LET time_parts == TimeParts(parts[1])
               IN IF Len(time_parts) # 3 THEN [kind |-> "Protocol", size |-> size]
                  ELSE IF ~ValidHms(time_parts) THEN [kind |-> "Panic", size |-> size]
                  ELSE IF ~ParseUint(parts[2], U64MaxDigits).ok
                       THEN [kind |-> "Protocol", size |-> size]
                  ELSE [kind |-> "Progress", size |-> size]

(***************************************************************************)
(* Names: volumes, snapshot labels, artifact files.                        *)
(***************************************************************************)
PartialSuffix == <<"_", "p", "a", "r", "t", "i", "a", "l">>
SidecarSuffix == <<".", "s", "h", "a", "2", "5", "6", "s", "u", "m">>
ArchiveExt == <<".", "z", "f", "s", ".", "z", "s", "t", ".", "g", "p", "g">>

Date1 == <<"2", "0", "2", "4", "-", "0", "1", "-", "0", "1">>
Date2 == <<"2", "0", "2", "4", "-", "0", "1", "-", "0", "2">>

\* format!("{}@{}", volume, label)
SnapshotName(volume, label) == volume \o <<"@">> \o label

\* ZSnapMgr::backup: the artifact's file name, snapshot.replace("/", "_")
\* plus the archive extension
DestinationName(snapshot) == Replace(snapshot, "/", "_") \o ArchiveExt

\* Zfs::send: the names of the partial artifact and of the two sidecars
PartialName(dest) == dest \o PartialSuffix
PartialSidecarName(dest) == PartialName(dest) \o SidecarSuffix
DestinationSidecarName(dest) == dest \o SidecarSuffix

(***************************************************************************)
(* The destination directory: a function from the names of the files that  *)
(* exist to their contents.                                                *)
(***************************************************************************)
FsPut(f, name, data) ==
  [n \in DOMAIN f \cup {name} |-> IF n = name THEN data ELSE f[n]]

FsDel(f, name) == [n \in DOMAIN f \ {name} |-> f[n]]

\* fs::rename within the directory: the target is replaced
FsRename(f, from, to) == FsDel(FsPut(f, to, f[from]), from)

EmptyDir == [n \in {} |-> <<>>]

(***************************************************************************)
(* zfs.rs, Zfs::send: one backup.  The main thread reads the pipeline's    *)
(* standard error, the thread spawned at line 228 copies its standard      *)
(* output to the partial artifact through write_file_and_sidecar.          *)
(***************************************************************************)
VARIABLES
  dir,         \* the destination directory
  dir0,        \* the destination directory when send was called
  exitStatus,  \* the exit status the pipeline ends with
  mainPc,      \* send's position: "loop", "join", "wait", "finalize",
               \*   "done" (returned), "panicked" (unwound by a panic)
  result,      \* what send returned
  size,        \* the local variable size
  nlines,      \* the lines of standard error read so far
  lastLine,    \* the last line read
  blocked,     \* the pipeline is stuck writing to a standard error nobody reads
  hashPc,      \* the thread's position: "create", "read", "finish",
               \*   "ok" (write_file_and_sidecar returned Ok), "failed" (it panicked)
  hctx,        \* the hash context of the thread's HashingWrite
  source       \* the bytes the thread has read from standard output

sendVars == <<dir, dir0, exitStatus, mainPc, result, size, nlines,
              lastLine, blocked, hashPc, hctx, source>>

VolPA == <<"p", "/", "a">>

\* the snapshot send is called with
SentSnapshot == SnapshotName(VolPA, Date1)

\* left-overs of earlier runs
StaleData == <<9>>
StaleSidecar == <<"s", "t", "a", "l", "e">>

StaleDir(dest, partial, final) ==
  LET d1 == IF partial
            THEN FsPut(FsPut(EmptyDir, PartialName(dest), StaleData),
                       PartialSidecarName(dest), StaleSidecar)
            ELSE EmptyDir
  IN IF final
     THEN FsPut(FsPut(d1, dest, StaleData), DestinationSidecarName(dest), StaleSidecar)
     ELSE d1

\* the destination file name send derives from the snapshot
Dest == DestinationName(SentSnapshot)

ExitStatuses ==
  {[signaled |-> FALSE, code |-> c] : c \in 0..MaxExit}
    \cup {[signaled |-> TRUE, code |-> 0]}

\* mutant: only a death by signal counts as failure, the code is not looked at
ExitSuccess_Mut(st) == ~st.signaled

\* ExitStatus::success
ExitSuccess(st) == ~st.signaled /\ st.code = 0

\* exit_status.code().or(Some(0)).unwrap()
ExitCode(st) == IF st.signaled THEN 0 ELSE st.code

NoResult == [kind |-> "None", code |-> 0]
Ok == [kind |-> "Ok", code |-> 0]
Failure(kind) == [kind |-> kind, code |-> 0]
ExternalProcessError(code) == [kind |-> "ExternalProcess", code |-> code]

SendInit ==
  /\ \E stale \in BOOLEAN : dir = StaleDir(Dest, stale, stale)
  /\ dir0 = dir
  /\ exitStatus \in ExitStatuses
  /\ mainPc = "loop"
  /\ result = NoResult
  /\ size = 0
  /\ nlines = 0
  /\ lastLine = <<>>
  /\ blocked = FALSE
  /\ hashPc = "create"
  /\ hctx = <<>>
  /\ source = <<>>


(* ---- the thread: hash_stream::write_file_and_sidecar ---- *)

\* File::create(path): the file exists and is empty, or the call fails and
\* the closure panics
HashCreate ==
  /\ hashPc = "create"
  /\ \E fail \in BOOLEAN :
       IF fail
       THEN hashPc' = "failed" /\ dir' = dir
       ELSE hashPc' = "read" /\ dir' = FsPut(dir, PartialName(Dest), <<>>)
  /\ UNCHANGED <<dir0, exitStatus, mainPc, result, size, nlines,
                 lastLine, blocked, hctx, source>>

\* a mutant: the loop goes on whatever hash_out.write returned
AfterWrite_Mut(ret, nread) == "read"

\* hash_stream.rs:76-86: the loop goes on after a write of the whole chunk;
\* a short write (nwritten != nread) and a write error (ret = -1) return Err
AfterWrite(ret, nread) == IF ret = nread THEN "read" ELSE "failed"

\* input.read(&mut buf) returns Ok(nread) with 0 < nread <= buf.len(), and the
\* chunk goes through hash_out.write; a short or failed write is an error
HashCopyChunk ==
  /\ hashPc = "read"
  /\ \E chunk \in BytesOfLen(1, BufSize) :
       /\ Len(source) + Len(chunk) <= MaxData
       /\ source' = source \o chunk
       /\ \E n \in 0..Len(chunk), err \in BOOLEAN :
            LET r == HashingWrite_write(
                       [ctx |-> hctx, inner |-> dir[PartialName(Dest)]], chunk, n, err)
            IN /\ hctx' = r.h.ctx
               /\ dir' = FsPut(dir, PartialName(Dest), r.h.inner)
               /\ hashPc' = AfterWrite(r.ret, Len(chunk))
  /\ UNCHANGED <<dir0, exitStatus, mainPc, result, size, nlines,
                 lastLine, blocked>>

\* input.read returns Ok(0), end of stream, or Err
HashReadEnd ==
  /\ hashPc = "read"
  /\ \E err \in BOOLEAN : hashPc' = IF err THEN "failed" ELSE "finish"
  /\ UNCHANGED <<dir, dir0, exitStatus, mainPc, result, size, nlines,
                 lastLine, blocked, hctx, source>>

\* the text write_file_and_sidecar puts into the sidecar
SidecarText(h) == HexString(HashingWrite_finish(h))

\* after the loop: the digest in hex, File::create(sidecar_path), write_all
HashWriteSidecar ==
  /\ hashPc = "finish"
  /\ \E outcome \in {"ok", "createFails", "writeFails"} :
       LET hash == SidecarText([ctx |-> hctx, inner |-> dir[PartialName(Dest)]])
       IN CASE outcome = "ok" ->
                 /\ dir' = FsPut(dir, PartialSidecarName(Dest), hash)
                 /\ hashPc' = "ok"
            [] outcome = "createFails" ->
                 /\ dir' = dir
                 /\ hashPc' = "failed"
            [] outcome = "writeFails" ->
                 /\ dir' = FsPut(dir, PartialSidecarName(Dest), <<>>)
                 /\ hashPc' = "failed"
  /\ UNCHANGED <<dir0, exitStatus, mainPc, result, size, nlines,
                 lastLine, blocked, hctx, source>>

(* ---- the main thread ---- *)

\* read_line returns Ok(Some(line)): one turn of the loop
SendReadLine ==
  /\ mainPc = "loop"
  /\ nlines < MaxLines
  /\ \E line \in TelemetryLines :
       LET r == ProcessLine(line, size)
       IN /\ lastLine' = line
          /\ nlines' = nlines + 1
          /\ size' = r.size
          /\ CASE r.kind \in {"Ignore", "Size"} ->
                    /\ mainPc' = "loop" /\ result' = result /\ blocked' = blocked
               [] r.kind = "Empty" ->
                    \* break: whatever the pipeline still writes to standard
                    \* error is not read any more
                    /\ mainPc' = "join" /\ result' = result /\ blocked' \in BOOLEAN
               [] r.kind = "Progress" ->
                    \* the status line is printed and standard output flushed
                    /\ blocked' = blocked
                    /\ \/ mainPc' = "loop" /\ result' = result
                       \/ mainPc' = "done" /\ result' = Failure("Flush")
               [] r.kind = "Protocol" ->
                    /\ mainPc' = "done" /\ result' = Failure("Protocol")
                    /\ blocked' = blocked
               [] r.kind = "Panic" ->
                    /\ mainPc' = "panicked" /\ result' = result /\ blocked' = blocked
  /\ UNCHANGED <<dir, dir0, exitStatus, hashPc, hctx, source>>

\* read_line returns Ok(None), the end of standard error, or Err
SendStderrEnd ==
  /\ mainPc = "loop"
  /\ \E err \in BOOLEAN :
       IF err
       THEN mainPc' = "done" /\ result' = Failure("StderrRead")
       ELSE mainPc' = "join" /\ result' = result
  /\ UNCHANGED <<dir, dir0, exitStatus, size, nlines, lastLine, blocked,
                 hashPc, hctx, source>>

\* read_thread.join(): waits for the thread; its panic becomes send's error
SendJoin ==
  /\ mainPc = "join"
  /\ hashPc \in {"ok", "failed"}
  /\ IF hashPc = "failed"
     THEN mainPc' = "done" /\ result' = Failure("HashThread")
     ELSE mainPc' = "wait" /\ result' = result
  /\ UNCHANGED <<dir, dir0, exitStatus, size, nlines, lastLine, blocked,
                 hashPc, hctx, source>>

\* child.wait() and the check of the exit status
SendWait ==
  /\ mainPc = "wait"
  /\ ~blocked
  /\ IF ExitSuccess(exitStatus)
     THEN mainPc' = "finalize" /\ result' = result
     ELSE mainPc' = "done" /\ result' = ExternalProcessError(ExitCode(exitStatus))
  /\ UNCHANGED <<dir, dir0, exitStatus, size, nlines, lastLine, blocked,
                 hashPc, hctx, source>>

\* mutant: the appended line lacks its newline
SidecarLine_Mut(dest) == <<" ", "*">> \o dest

\* the line appended to the final sidecar
SidecarLine(dest) == <<" ", "*">> \o dest \o <<NL>>

FinalizeFaults == {"none", "remove", "rename1", "rename2", "open", "write"}

\* lines 322-339: the empty snapshot's partial artifact is removed; otherwise
\* the two renames, then the file name is appended to the sidecar.  fault
\* names the call that fails, if any.
Finalize(d, dest, sz, fault) ==
  IF sz = 0
  THEN IF fault = "remove"
       THEN [dir |-> d, result |-> Failure("Finalize")]
       ELSE [dir |-> FsDel(d, PartialName(dest)), result |-> Ok]
  ELSE LET d1 == FsRename(d, PartialName(dest), dest)
           d2 == FsRename(d1, PartialSidecarName(dest), DestinationSidecarName(dest))
           d3 == FsPut(d2, DestinationSidecarName(dest),
                       d2[DestinationSidecarName(dest)] \o SidecarLine(dest))
       IN CASE fault = "rename1" -> [dir |-> d, result |-> Failure("Finalize")]
            [] fault = "rename2" -> [dir |-> d1, result |-> Failure("Finalize")]
            [] fault \in {"open", "write"} -> [dir |-> d2, result |-> Failure("Finalize")]
            [] OTHER -> [dir |-> d3, result |-> Ok]

SendFinalize ==
  /\ mainPc = "finalize"
  /\ \E fault \in FinalizeFaults :
       LET r == Finalize(dir, Dest, size, fault)
       IN dir' = r.dir /\ result' = r.result
  /\ mainPc' = "done"
  /\ UNCHANGED <<dir0, exitStatus, size, nlines, lastLine, blocked,
                 hashPc, hctx, source>>

(***************************************************************************)
(* Ordering of text: Rust compares strings byte by byte.                   *)
(***************************************************************************)
\* the characters of the model's names in ASCII order
AsciiOrder ==
  <<"-", ".", "/", "0", "1", "2", "3", "4", "5", "6", "7", "8", "9", "@", "_",
    "a", "b", "c", "d", "e", "f", "g", "h", "i", "j", "k", "l", "m", "n", "o",
    "p", "q", "r", "s", "t", "u", "v", "w", "x", "y", "z">>

Ord(c) == CHOOSE i \in 1..Len(AsciiOrder) : AsciiOrder[i] = c

\* a < b for strings
RECURSIVE StrLess(_, _)
StrLess(a, b) ==
  IF Len(b) = 0 THEN FALSE
  ELSE IF Len(a) = 0 THEN TRUE
  ELSE IF a[1] # b[1] THEN Ord(a[1]) < Ord(b[1])
  ELSE StrLess(Tail(a), Tail(b))

Range(seq) == {seq[i] : i \in 1..Len(seq)}

IsSorted(seq) == \A i \in 1..(Len(seq) - 1) : ~StrLess(seq[i + 1], seq[i])

\* the strings of a set in ascending order: slice::sort, and the key order of
\* a BTreeMap
RECURSIVE SortSet(_)
SortSet(S) ==
  IF S = {} THEN <<>>
  ELSE LET m == CHOOSE x \in S : \A y \in S : ~StrLess(y, x)
       IN <<m>> \o SortSet(S \ {m})

\* slice::binary_search(x).is_ok() as the standard library of Rust 1.52 to
\* 1.81 computes it; left and right are 0-based
RECURSIVE BinarySearchHalving(_, _, _, _)
BinarySearchHalving(s, x, left, right) ==
  IF left >= right THEN FALSE
  ELSE LET mid == left + (right - left) \div 2
       IN IF StrLess(s[mid + 1], x) THEN BinarySearchHalving(s, x, mid + 1, right)
          ELSE IF StrLess(x, s[mid + 1]) THEN BinarySearchHalving(s, x, left, mid)
          ELSE TRUE

\* the same as the other releases of the standard library compute it
RECURSIVE BinarySearchBase(_, _, _, _)
BinarySearchBase(s, x, base, sz) ==
  IF sz = 0 THEN FALSE
  ELSE IF sz = 1 THEN s[base + 1] = x
  ELSE LET half == sz \div 2
           mid == base + half
       IN BinarySearchBase(s, x, IF StrLess(x, s[mid + 1]) THEN base ELSE mid, sz - half)

\* the releases of the standard library binary_search may come from
StdReleases == {"halving", "base"}

\* binary_search(x).is_ok() as the build's standard library computes it: on a
\* sorted slice both computations find x exactly when it is there; on an
\* unsorted slice the result is unspecified and depends on the release
BinarySearch(s, x, release) ==
  IF release = "halving"
  THEN BinarySearchHalving(s, x, 0, Len(s))
  ELSE BinarySearchBase(s, x, 0, Len(s))

(***************************************************************************)
(* backups.rs: the proposed backups, one per volume.                       *)
(***************************************************************************)
None == [some |-> FALSE, v |-> <<>>]
Some(x) == [some |-> TRUE, v |-> x]

Backups_new == [v \in {} |-> <<>>]

\* Backups::insert
Backups_insert(b, filename_base, volume, start_snapshot) ==
  IF volume \in DOMAIN b
  THEN IF start_snapshot.some
          /\ (~b[volume].start_snapshot.some
              \/ StrLess(b[volume].start_snapshot.v, start_snapshot.v))
       THEN [b EXCEPT ![volume].start_snapshot = start_snapshot,
                      ![volume].filename_base = filename_base]
       ELSE b
  ELSE [v \in DOMAIN b \cup {volume} |->
          IF v = volume
          THEN [filename_base |-> filename_base, volume |-> volume,
                start_snapshot |-> start_snapshot, end_snapshot |-> None]
          ELSE b[v]]

\* mutant: every backup of the map is returned
Backups_into_values_Mut(b) ==
  LET keys == SortSet(DOMAIN b)
  IN [i \in 1..Len(keys) |-> b[keys[i]]]

\* Backups::into_values: the backups that have an end snapshot, by volume
Backups_into_values(b) ==
  LET keys == SortSet(DOMAIN b)
      all == [i \in 1..Len(keys) |-> b[keys[i]]]
  IN SelectSeq(all, LAMBDA x : x.end_snapshot.some)

(***************************************************************************)
(* main.rs, gather_volumes: the reconciliation of the destination          *)
(* directory with the inventory.                                           *)
(***************************************************************************)
VARIABLES
  volumes,     \* what get_volumes returned
  snapshots,   \* what get_snapshots(None) returned
  files,       \* the directory listing; read_dir yields it in no particular order
  visited,     \* the files the first loop has looked at so far
  backups,     \* the Backups map
  reported,    \* the files reported as matching no volume or several
  fillIdx,     \* the backups the second loop has filled in so far
  reconPc,     \* "files", "fill", "done" (returned), "panicked"
  stdlib,      \* the release of the standard library the program was built with
  pass,        \* 1 in the first run of the program, 2 when it is run again
  worklist0,   \* the worklist of the first run
  attempts,    \* do_backups: the candidates passed to backup so far, with the outcome
  failed,      \* do_backups: the volumes printed as "failed backup of"
  worklist     \* what gather_volumes returned

reconVars == <<volumes, snapshots, files, visited, backups, reported, fillIdx, stdlib,
               pass, worklist0, attempts, failed,
               reconPc, worklist>>

\* the most volumes and the most snapshots of the inventory
MaxVols == 2
MaxSnaps == 2

VolOA == <<"o", "/", "a">>
VolPAB == <<"p", "/", "a", "_", "b">>

VolNames == {VolPA, VolOA, VolPAB}

LabelX == <<"x">>
Labels == {Date1, Date2, LabelX}

\* the snapshots the inventory may hold
SnapNames ==
  {SnapshotName(VolPA, Date1), SnapshotName(VolPA, Date2), SnapshotName(VolPA, LabelX),
   SnapshotName(VolOA, Date1), SnapshotName(VolPAB, Date1)}

ZfsMarker == <<".", "z", "f", "s">>

\* file names of the destination directory
StemPA == <<"p", "_", "a">>
StemA == <<"a">>
StemPAB == <<"p", "_", "a", "_", "b">>

ArtifactFile(stem, label) == SnapshotName(stem, label) \o ArchiveExt

FileNames ==
  {ArtifactFile(StemPA, Date1),
   ArtifactFile(StemPA, Date2),
   PartialName(ArtifactFile(StemPA, Date1)),
   PartialSidecarName(ArtifactFile(StemPA, Date1)),
   ArtifactFile(StemA, Date1),
   ArtifactFile(StemPAB, Date1),
   <<"n", "o", "t", "e", "s">> \o ZfsMarker,
   <<"r", "e", "a", "d", "m", "e">>}

\* the sequences of at most n distinct elements of S
DistinctSeqs(S, n) ==
  {q \in UNION {[1..k -> S] : k \in 0..n} :
     \A i, j \in 1..Len(q) : i # j => q[i] # q[j]}

\* the subsets of at most n elements of S
SubsetsUpTo(S, n) == {T \in SUBSET S : Cardinality(T) <= n}

ReconInit ==
  /\ volumes \in DistinctSeqs(VolNames, MaxVols)
  /\ \E chosen \in SubsetsUpTo({sn \in SnapNames :
                                  \E v \in Range(volumes) : StartsWith(sn, v \o <<"@">>)},
                               MaxSnaps) :
       snapshots = SortSet(chosen)
  /\ files \in SubsetsUpTo(FileNames, MaxFiles)
  /\ stdlib \in StdReleases
  /\ pass = 1
  /\ worklist0 = <<>>
  /\ attempts = <<>>
  /\ failed = <<>>
  /\ visited = {}
  /\ backups = Backups_new
  /\ reported = {}
  /\ fillIdx = 0
  /\ reconPc = "files"
  /\ worklist = <<>>

\* the body of the loop over the directory for one file: what becomes of the
\* Backups map, and whether the file is reported.  found is the outcome of
\* volumes.binary_search.
ProcessFile(b, vols, file_path, found) ==
  LET zfs_pos == Find(file_path, ZfsMarker)
      skip == [backups |-> b, reported |-> FALSE]
  IN IF zfs_pos = -1 \/ EndsWith(file_path, PartialSuffix) THEN skip
     ELSE LET parts == SplitN2(SubSeq(file_path, 1, zfs_pos), "@")
          IN IF Len(parts) # 2 THEN skip
             ELSE LET volume_name == Replace(parts[1], "_", "/")
                      backup_snap == parts[2]
                      volume_name_mod == <<"/">> \o volume_name
                      matches == SelectSeq(vols, LAMBDA vol : EndsWith(vol, volume_name_mod))
                  IN IF found
                     THEN [backups |-> Backups_insert(b, parts[1], volume_name,
                                                      Some(backup_snap)),
                           reported |-> FALSE]
                     ELSE IF Len(matches) = 1
                     THEN [backups |-> Backups_insert(b, volume_name, matches[1],
                                                      Some(backup_snap)),
                           reported |-> FALSE]
                     ELSE [backups |-> b, reported |-> TRUE]

\* the volume name the file's stem denormalizes to (empty when the file is
\* not looked at)
DenormalizedStem(file_path) ==
  LET zfs_pos == Find(file_path, ZfsMarker)
  IN IF zfs_pos = -1 THEN <<>>
     ELSE Replace(SplitN2(SubSeq(file_path, 1, zfs_pos), "@")[1], "_", "/")

GatherFile ==
  /\ reconPc = "files"
  /\ \E file_path \in files \ visited :
       /\ LET found == BinarySearch(volumes, DenormalizedStem(file_path), stdlib)
              r == ProcessFile(backups, volumes, file_path, found)
          IN /\ backups' = r.backups
             /\ reported' = IF r.reported THEN reported \cup {file_path} ELSE reported
       /\ visited' = visited \cup {file_path}
  /\ UNCHANGED <<volumes, snapshots, stdlib, pass, worklist0, attempts, failed,
                 files, fillIdx, reconPc, worklist>>

\* the directory is exhausted
GatherFilesDone ==
  /\ reconPc = "files"
  /\ visited = files
  /\ reconPc' = "fill"
  /\ UNCHANGED <<volumes, snapshots, stdlib, pass, worklist0, attempts, failed,
                 files, visited, backups, reported, fillIdx, worklist>>

\* ^\d{4}-\d{2}-\d{2}$
IsDateLabel(s) ==
  /\ Len(s) = 10
  /\ s[5] = "-" /\ s[8] = "-"
  /\ \A i \in {1, 2, 3, 4, 6, 7, 9, 10} : s[i] \in Digits

\* the volume's snapshots with a date label, sorted
VolumeSnaps(snaps, volume) ==
  LET volume_at == volume \o <<"@">>
  IN SortSet({sn \in Range(snaps) :
                /\ StartsWith(sn, volume_at)
                /\ IsDateLabel(SubSeq(sn, Len(volume_at) + 1, Len(sn)))})

\* splitn(2, '@').last()
LabelOf(snapshot) ==
  LET parts == SplitN2(snapshot, "@") IN parts[Len(parts)]

\* mutant: the start snapshot is kept without the check
CheckedStart_Mut(backup, volume_snaps) == backup.start_snapshot

\* the start snapshot after the check that it still exists
CheckedStart(backup, volume_snaps) ==
  IF backup.start_snapshot.some
     /\ SnapshotName(backup.volume, backup.start_snapshot.v) \notin Range(volume_snaps)
  THEN None
  ELSE backup.start_snapshot

\* mutant: the first snapshot is taken for the last
FillBackup_Mut(backup, volume_snaps) ==
  LET start == CheckedStart(backup, volume_snaps)
      last_snapshot == LabelOf(volume_snaps[1])
  IN [backup EXCEPT
        !.start_snapshot = start,
        !.end_snapshot = IF start # Some(last_snapshot) THEN Some(last_snapshot)
                         ELSE None]

\* the body of the second loop for one backup; volume_snaps is not empty
FillBackup(backup, volume_snaps) ==
  LET start == CheckedStart(backup, volume_snaps)
      last_snapshot == LabelOf(volume_snaps[Len(volume_snaps)])
  IN [backup EXCEPT
        !.start_snapshot = start,
        !.end_snapshot = IF start # Some(last_snapshot) THEN Some(last_snapshot)
                         ELSE None]

\* one turn of the second loop; volume_snaps.last().unwrap() panics when the
\* volume has no snapshot with a date label
GatherFill ==
  /\ reconPc = "fill"
  /\ fillIdx < Cardinality(DOMAIN backups)
  /\ LET volume == SortSet(DOMAIN backups)[fillIdx + 1]
         volume_snaps == VolumeSnaps(snapshots, volume)
     IN IF Len(volume_snaps) = 0
        THEN /\ reconPc' = "panicked"
             /\ backups' = [backups EXCEPT ![volume].start_snapshot =
                                              CheckedStart(backups[volume], volume_snaps)]
        ELSE /\ reconPc' = reconPc
             /\ backups' = [backups EXCEPT ![volume] = FillBackup(backups[volume], volume_snaps)]
  /\ fillIdx' = fillIdx + 1
  /\ UNCHANGED <<volumes, snapshots, stdlib, pass, worklist0, attempts, failed,
                 files, visited, reported, worklist>>

\* backups.into_values()
GatherReturn ==
  /\ reconPc = "fill"
  /\ fillIdx = Cardinality(DOMAIN backups)
  /\ worklist' = Backups_into_values(backups)
  /\ reconPc' = "done"
  /\ UNCHANGED <<volumes, snapshots, stdlib, pass, worklist0, attempts, failed,
                 files, visited, backups, reported, fillIdx>>

(* ---- main.rs, do_backups: the worklist is backed up ---- *)

\* how one call of ZSnapMgr::backup ends: Ok with an artifact promoted, Ok
\* for an empty snapshot (size 0), Err returned, or a panic inside send
BackupOutcomes == {"Artifact", "Empty", "Error", "Panic"}

\* format!("{}@{}", backup.volume, backup.end_snapshot...unwrap())
CandidateSnapshot(backup) == SnapshotName(backup.volume, backup.end_snapshot.v)

\* the names in the directory after backup(snapshot) ended with outcome: the
\* thread has written the partial artifact and the partial sidecar, and on
\* success send's last lines have run
FilesAfterBackup(names, snapshot_name, outcome) ==
  LET dest == DestinationName(snapshot_name)
      d0 == [f \in names |-> <<>>]
      d1 == FsPut(FsPut(d0, PartialName(dest), <<>>), PartialSidecarName(dest), <<>>)
  IN CASE outcome = "Artifact" -> DOMAIN Finalize(d1, dest, 1, "none").dir
       [] outcome = "Empty" -> DOMAIN Finalize(d1, dest, 0, "none").dir
       [] OTHER -> DOMAIN d1

\* one turn of the loop of do_backups: the error backup returns is printed
\* and the loop goes on; a panic unwinds through do_backups
DoBackup ==
  /\ reconPc = "done"
  /\ pass = 1
  /\ Len(attempts) < Len(worklist)
  /\ LET backup == worklist[Len(attempts) + 1]
     IN \E outcome \in BackupOutcomes :
          /\ attempts' = Append(attempts, [volume |-> backup.volume, outcome |-> outcome])
          /\ files' = FilesAfterBackup(files, CandidateSnapshot(backup), outcome)
          /\ failed' = IF outcome = "Error" THEN Append(failed, backup.volume) ELSE failed
          /\ reconPc' = IF outcome = "Panic" THEN "panicked" ELSE reconPc
  /\ UNCHANGED <<volumes, snapshots, stdlib, pass, worklist0, visited, backups,
                 reported, fillIdx, worklist>>

\* the program is run again on the same inventory: gather_volumes starts over
RunAgain ==
  /\ reconPc = "done"
  /\ pass = 1
  /\ Len(attempts) = Len(worklist)
  /\ pass' = 2
  /\ worklist0' = worklist
  /\ visited' = {}
  /\ backups' = Backups_new
  /\ reported' = {}
  /\ fillIdx' = 0
  /\ worklist' = <<>>
  /\ reconPc' = "files"
  /\ UNCHANGED <<volumes, snapshots, stdlib, files, attempts, failed>>

ReconIdle ==
  /\ volumes = <<>>
  /\ snapshots = <<>>
  /\ files = {}
  /\ visited = {}
  /\ stdlib = "halving"
  /\ pass = 1
  /\ worklist0 = <<>>
  /\ attempts = <<>>
  /\ failed = <<>>
  /\ backups = Backups_new
  /\ reported = {}
  /\ fillIdx = 0
  /\ reconPc = "done"
  /\ worklist = <<>>

(***************************************************************************)
(* lib.rs, ZSnapMgr::backup, and the command Zfs::send spawns: how the     *)
(* passphrase gets to the pipeline.  Two runs are modelled side by side;   *)
(* they get the same arguments and environment and differ in nothing but   *)
(* the passphrase.                                                         *)
(***************************************************************************)
TxtZfs ==
  <<"z", "f", "s">>

TxtSudoZfs ==
  <<"s", "u", "d", "o", " ", "z", "f", "s">>

TxtSend ==
  <<" ", "s", "e", "n", "d", " ", "-", "-", "p", "a", "r", "s", "a", "b",
    "l", "e", " ", "-", "-", "v", "e", "r", "b", "o", "s", "e", " ">>

TxtIncremental ==
  <<"-", "i", " ", "@", "$", "0">>

TxtTarget ==
  <<" ", "$", "1", " ">>

TxtPipe ==
  <<" ", "|", " ">>

TxtFilterHead ==
  <<"z", "s", "t", "d", " ", "-", "T", "0", " ", "-", "-", "s", "i", "z",
    "e", "-", "h", "i", "n", "t", "=", "1", "0", "0", "0", "0", "0", "0",
    "0", "0", "0", " ", "|", " ", "g", "p", "g", " ", "-", "-", "b", "a",
    "t", "c", "h", " ", "-", "-", "s", "y", "m", "m", "e", "t", "r", "i",
    "c", " ", "-", "-", "p", "a", "s", "s", "p", "h", "r", "a", "s", "e",
    "-", "f", "d", " ">>

TxtFilterTail ==
  <<" ", "-", "-", "o", "u", "t", "p", "u", "t", " ", "-">>

TxtRunning ==
  <<"r", "u", "n", "n", "i", "n", "g", ":", " ">>

TxtSh ==
  <<"s", "h">>

TxtDashC ==
  <<"-", "c">>

TxtPassphraseFd ==
  <<"-", "-", "p", "a", "s", "s", "p", "h", "r", "a", "s", "e", "-", "f",
    "d", " ">>


\* str::replace(pat, to) for a pattern of several characters
RECURSIVE ReplaceStr(_, _, _)
ReplaceStr(s, pat, to) ==
  LET i == Find(s, pat)
  IN IF i = -1 THEN s
     ELSE SubSeq(s, 1, i) \o to \o ReplaceStr(SubSeq(s, i + Len(pat) + 1, Len(s)), pat, to)

\* the decimal text of a descriptor number: format!("{}", fd)
RECURSIVE DecString(_)
DecString(n) ==
  IF n < 10 THEN <<HexDigits[n + 1]>>
  ELSE DecString(n \div 10) \o <<HexDigits[(n % 10) + 1]>>

\* mutant: the passphrase itself is formatted into the gpg option
FilterProgram_Mut(passphrase, child_fd) == TxtFilterHead \o passphrase \o TxtFilterTail

\* lib.rs:136-138: the filter program handed to send.  Of backup's passphrase
\* and pipe, which are both in scope, only the pipe's descriptor is formatted
\* into it.
FilterProgram(passphrase, child_fd) ==
  TxtFilterHead \o DecString(child_fd) \o TxtFilterTail

\* zfs.rs:188-193: the shell command line
CmdLine(use_sudo, incremental, filter_program) ==
  (IF use_sudo THEN TxtSudoZfs ELSE TxtZfs)
    \o TxtSend
    \o (IF incremental.some THEN TxtIncremental ELSE <<>>)
    \o TxtTarget
    \o (IF filter_program.some THEN TxtPipe ELSE <<>>)
    \o (IF filter_program.some THEN filter_program.v ELSE <<>>)

\* zfs.rs:199-203: the line printed before the spawn
RunningLine(cmdline, incremental, snapshot) ==
  TxtRunning
    \o ReplaceStr(ReplaceStr(cmdline, <<"$", "0">>,
                             IF incremental.some THEN incremental.v ELSE <<>>),
                  <<"$", "1">>, snapshot)

\* zfs.rs:204-208: the program and its arguments
Argv(cmdline, incremental, snapshot) ==
  <<TxtSh, TxtDashC, cmdline, IF incremental.some THEN incremental.v ELSE <<>>, snapshot>>

\* lib.rs:129: what is written into the pipe
PipePayload(passphrase) == passphrase \o <<NL>>

VARIABLES
  bkIn,        \* what the two runs share: snapshot, incremental start,
               \*   use_sudo, the descriptor pipe() hands out, the environment
  bkPass,      \* the passphrase of each run
  bk           \* each run: its position, the pipe, and what the child and
               \*   the console got

backupVars == <<bkIn, bkPass, bk>>

Pass1 ==
  <<"h", "u", "n", "t", "e", "r", "2">>

Pass2 ==
  <<"z", "f", "s">>

Pass3 ==
  <<"a", " ", "b">>

Passphrases == {Pass1, Pass2, Pass3}

\* the descriptors pipe() may return for the reading end
ChildFds == {3, 4, 11}

Environments == {<<>>, <<<<"H", "O", "M", "E", "=", "/">>>>}

BackupStart ==
  [pc |-> "start", child_fd |-> -1, pipe |-> <<>>, argv |-> <<>>, console |-> <<>>,
   env |-> <<>>]

BackupInit ==
  /\ bkIn \in [snapshot : {SnapshotName(VolPA, Date2), SnapshotName(VolOA, Date1)},
               incremental : {None, Some(Date1)},
               use_sudo : BOOLEAN,
               fd : ChildFds,
               env : Environments]
  /\ bkPass \in {pp \in [1..2 -> Passphrases] : pp[1] # pp[2]}
  /\ bk = [r \in 1..2 |-> BackupStart]

\* InheritablePipe::new: child_fd is the reading end; or the call fails
BackupPipeNew(r) ==
  /\ bk[r].pc = "start"
  /\ \E fail \in BOOLEAN :
       bk' = IF fail THEN [bk EXCEPT ![r].pc = "failed"]
             ELSE [bk EXCEPT ![r].pc = "piped", ![r].child_fd = bkIn.fd]
  /\ UNCHANGED <<bkIn, bkPass>>

\* write!(passphrase_pipe, "{}\n", passphrase)
BackupWritePassphrase(r) ==
  /\ bk[r].pc = "piped"
  /\ \E fail \in BOOLEAN :
       bk' = IF fail THEN [bk EXCEPT ![r].pc = "failed"]
             ELSE [bk EXCEPT ![r].pc = "written",
                             ![r].pipe = @ \o PipePayload(bkPass[r])]
  /\ UNCHANGED <<bkIn, bkPass>>

\* self.zfs.send(...) up to the spawn: the command line is built and
\* printed, the child gets the arguments and inherits the environment
BackupSpawn(r) ==
  /\ bk[r].pc = "written"
  /\ LET cmdline == CmdLine(bkIn.use_sudo, bkIn.incremental,
                            Some(FilterProgram(bkPass[r], bk[r].child_fd)))
     IN \E fail \in BOOLEAN :
          bk' = IF fail
                THEN [bk EXCEPT ![r].pc = "failed",
                                ![r].console = RunningLine(cmdline, bkIn.incremental,
                                                           bkIn.snapshot)]
                ELSE [bk EXCEPT ![r].pc = "spawned",
                                ![r].console = RunningLine(cmdline, bkIn.incremental,
                                                           bkIn.snapshot),
                                ![r].argv = Argv(cmdline, bkIn.incremental, bkIn.snapshot),
                                ![r].env = bkIn.env]
  /\ UNCHANGED <<bkIn, bkPass>>

BackupIdle ==
  /\ bkIn = [snapshot |-> SnapshotName(VolPA, Date2), incremental |-> None,
             use_sudo |-> TRUE, fd |-> 3, env |-> <<>>]
  /\ bkPass = [r \in 1..2 |-> IF r = 1 THEN Pass1 ELSE Pass2]
  /\ bk = [r \in 1..2 |-> BackupStart]

(***************************************************************************)
(* chrono's calendar, as far as snapshot_automanage uses it.  A date is a   *)
(* record of year, month, day and n, the number of days since 1970-01-01.  *)
(***************************************************************************)
IsLeapYear(y) == (y % 4 = 0 /\ y % 100 # 0) \/ y % 400 = 0

DaysInMonth(y, m) ==
  CASE m \in {4, 6, 9, 11} -> 30
    [] m = 2 -> IF IsLeapYear(y) THEN 29 ELSE 28
    [] OTHER -> 31

\* the dates Local.ymd accepts; it panics on the others
ValidYmd(y, m, d) ==
  /\ y \in 1..9999
  /\ m \in 1..12
  /\ d \in 1..DaysInMonth(y, m)

\* the number of days from 1970-01-01 to y-m-d
DaysFromCivil(y, m, d) ==
  LET yy == IF m <= 2 THEN y - 1 ELSE y
      era == yy \div 400
      yoe == yy - era * 400
      doy == (153 * (IF m > 2 THEN m - 3 ELSE m + 9) + 2) \div 5 + d - 1
      doe == yoe * 365 + yoe \div 4 - yoe \div 100 + doy
  IN era * 146097 + doe - 719468

\* Local.ymd(y, m, d)
Ymd(y, m, d) == [year |-> y, month |-> m, day |-> d, n |-> DaysFromCivil(y, m, d)]

\* the date n days after 1970-01-01
DateOfDays(n) ==
  LET z == n + 719468
      era == z \div 146097
      doe == z - era * 146097
      yoe == (doe - doe \div 1460 + doe \div 36524 - doe \div 146096) \div 365
      doy == doe - (365 * yoe + yoe \div 4 - yoe \div 100)
      mp == (5 * doy + 2) \div 153
      d == doy - (153 * mp + 2) \div 5 + 1
      m == IF mp < 10 THEN mp + 3 ELSE mp - 9
      y == yoe + era * 400 + (IF m <= 2 THEN 1 ELSE 0)
  IN [year |-> y, month |-> m, day |-> d, n |-> n]

\* Date::succ
Succ(date) == DateOfDays(date.n + 1)

\* Datelike::weekday, Monday = 1 .. Sunday = 7 (1970-01-01 was a Thursday)
Weekday(date) == ((date.n + 3) % 7) + 1

Sunday == 7

\* Datelike::ordinal: the day of the year, from 1
Ordinal(date) == date.n - DaysFromCivil(date.year, 1, 1) + 1

\* the number of ISO weeks of a year: 53 when January 1 is a Thursday, or a
\* Wednesday in a leap year
IsoWeeksInYear(y) ==
  LET jan1 == Weekday(Ymd(y, 1, 1))
  IN IF jan1 = 4 \/ (jan1 = 3 /\ IsLeapYear(y)) THEN 53 ELSE 52

\* Datelike::iso_week: the ISO 8601 year and week number of the date
IsoWeek(date) ==
  LET w == (Ordinal(date) - Weekday(date) + 10) \div 7
  IN IF w < 1 THEN [year |-> date.year - 1, week |-> IsoWeeksInYear(date.year - 1)]
     ELSE IF w > IsoWeeksInYear(date.year) THEN [year |-> date.year + 1, week |-> 1]
     ELSE [year |-> date.year, week |-> w]

\* mutant: the ISO week, which starts on Monday
WeekOfYear_Mut(date) == IsoWeek(date)

\* WeekOfYear::week_of_year: on a Sunday the ISO week of the next day
WeekOfYear(date) ==
  IF Weekday(date) = Sunday THEN IsoWeek(Succ(date)) ELSE IsoWeek(date)

(***************************************************************************)
(* lib.rs, snapshot_automanage: which snapshots to create and to delete.   *)
(***************************************************************************)
\* the most snapshots of the volume with a history, the most days between
\* two of them, and the longest history beside which a second volume is
\* looked at
MaxDaily == 62
MaxStride == 2
MaxBeside == 2

\* count > 60 and count > 30 in snapshot_automanage
MonthlyAfter == 60
WeeklyAfter == 30

\* str::splitn(n, c): at most n fields, the last one holding the rest
RECURSIVE SplitN(_, _, _)
SplitN(s, c, n) ==
  LET i == IndexOf(s, c)
  IN IF n <= 1 \/ i = 0 THEN <<s>>
     ELSE <<SubSeq(s, 1, i - 1)>> \o SplitN(SubSeq(s, i + 1, Len(s)), c, n - 1)

I32MaxDigits == <<"2", "1", "4", "7", "4", "8", "3", "6", "4", "7">>

\* str::parse::<i32>(): an optional sign, then digits, within the range of
\* i32 (the model feeds no number near the ends of the range)
ParseI32(s) ==
  IF Len(s) > 0 /\ s[1] = "-"
  THEN LET r == ParseUint(SubSeq(s, 2, Len(s)), I32MaxDigits)
       IN IF Len(s) > 1 /\ s[2] # "+" /\ r.ok THEN [ok |-> TRUE, val |-> 0 - r.val]
          ELSE [ok |-> FALSE, val |-> 0]
  ELSE ParseUint(s, I32MaxDigits)

\* date_from_snapshot: None when the label has not three numeric fields;
\* Local.ymd panics when the numbers are no date
DateFromSnapshot(snapshot_name) ==
  LET at == SplitN2(snapshot_name, "@")
      datepart == at[Len(at)]
      fields == SplitN(datepart, "-", 3)
      parsed == SelectSeq(fields, LAMBDA part : ParseI32(part).ok)
      y == ParseI32(parsed[1]).val
      m == ParseI32(parsed[2]).val
      d == ParseI32(parsed[3]).val
  IN IF Len(parsed) # 3 THEN [kind |-> "None"]
     ELSE IF ValidYmd(y, m, d) THEN [kind |-> "Some", date |-> Ymd(y, m, d)]
     ELSE [kind |-> "Panic"]

\* format!("{:0w$}", n)
RECURSIVE ZeroPad(_, _)
ZeroPad(s, w) == IF Len(s) >= w THEN s ELSE ZeroPad(<<"0">> \o s, w)

\* format!("{:04}-{:02}-{:02}", year, month, day)
DateString(date) ==
  ZeroPad(DecString(date.year), 4) \o <<"-">> \o ZeroPad(DecString(date.month), 2)
    \o <<"-">> \o ZeroPad(DecString(date.day), 2)

\* BTreeMap<Date, String>::insert on a map kept as a sequence in ascending
\* order of the date: a snapshot of the same date replaces the one there.
\* week is week_of_year() of the date, kept with the entry so that the loop
\* need not compute it again for every comparison.
MapInsert(m, date, snapshot_name) ==
  LET before == SelectSeq(m, LAMBDA e : e.date.n < date.n)
      after == SelectSeq(m, LAMBDA e : e.date.n > date.n)
  IN before \o <<[date |-> date, snap |-> snapshot_name, week |-> WeekOfYear(date)]>>
       \o after

\* lines 150-159, one turn of the loop: the snapshot is filed under its
\* volume and date, or passed over when it has no date; "Panic" when
\* date_from_snapshot panicked
CollectSnap(snapshot_name, map) ==
  LET snap_date == DateFromSnapshot(snapshot_name)
      volume == SplitN2(snapshot_name, "@")[1]
      entry == IF volume \in DOMAIN map THEN map[volume] ELSE <<>>
  IN CASE snap_date.kind = "Panic" -> [kind |-> "Panic", map |-> map]
       [] snap_date.kind = "None" -> [kind |-> "Ok", map |-> map]
       [] OTHER ->
            [kind |-> "Ok",
             map |-> [v \in DOMAIN map \cup {volume} |->
                        IF v = volume THEN MapInsert(entry, snap_date.date, snapshot_name)
                        ELSE map[v]]]

\* snaps.iter().find(..).unwrap() for the two closures of the loop: the oldest
\* entry of the month, and of the week, of the entry at position i
MinOf(S) == CHOOSE i \in S : \A j \in S : i <= j

\* mutant: the newest entry of the month is taken
FirstOfMonth_Mut(snaps, i) ==
  snaps[CHOOSE j \in 1..Len(snaps) :
          /\ snaps[j].date.year = snaps[i].date.year
          /\ snaps[j].date.month = snaps[i].date.month
          /\ \A k \in 1..Len(snaps) :
               (snaps[k].date.year = snaps[i].date.year
                  /\ snaps[k].date.month = snaps[i].date.month) => k <= j]

\* lines 194-200: the first entry of the map, which is in ascending order of
\* the date, that is of the year and month of the entry at position i
FirstOfMonth(snaps, i) ==
  snaps[MinOf({j \in 1..Len(snaps) : /\ snaps[j].date.year = snaps[i].date.year
                                      /\ snaps[j].date.month = snaps[i].date.month})]

FirstOfWeek(snaps, i) ==
  snaps[MinOf({j \in 1..Len(snaps) : snaps[j].week = snaps[i].week})]

\* mutant: the monthly rule from the 60th snapshot on
DeleteReason_Mut(snaps, i, count) ==
  IF count >= MonthlyAfter
  THEN FirstOfMonth(snaps, i).snap # snaps[i].snap
  ELSE IF count > WeeklyAfter
  THEN /\ FirstOfWeek(snaps, i).snap # snaps[i].snap
       /\ FirstOfMonth(snaps, i).snap # snaps[i].snap
  ELSE FALSE

\* lines 192-223: whether the snapshot at position i, evaluated at count, is
\* to be deleted
DeleteReason(snaps, i, count) ==
  IF count > MonthlyAfter
  THEN FirstOfMonth(snaps, i).snap # snaps[i].snap
  ELSE IF count > WeeklyAfter
  THEN /\ FirstOfWeek(snaps, i).snap # snaps[i].snap
       /\ FirstOfMonth(snaps, i).snap # snaps[i].snap
  ELSE FALSE

\* mutant: the new snapshot is not counted
ExtraStep_Mut(count, days_old) == 0

\* line 175: the extra step of the counter for the snapshot to be created
ExtraStep(count, days_old) == IF count = 1 /\ days_old # 0 THEN 1 ELSE 0

\* lines 167-231: one turn of the loop over a volume's snapshots, which
\* goes from the newest to the oldest; i is the position of the snapshot in
\* snaps, count the counter before the turn.  The result holds the counter
\* after the turn, the line printed and what is pushed to the worklists.
SnapshotTurn(today, volume, snaps, i, count) ==
  LET e == snaps[i]
      count1 == count + 1
      days_old == today.n - e.date.n
      extra == ExtraStep(count1, days_old)
      count2 == count1 + extra
      delete == DeleteReason(snaps, i, count2)
  IN [count |-> count2,
      line |-> [volume |-> volume, snap |-> e.snap, days_old |-> days_old,
                count |-> count2, delete |-> delete],
      to_delete |-> IF delete THEN <<e.snap>> ELSE <<>>,
      to_create |-> IF extra = 1 THEN <<SnapshotName(volume, DateString(today))>>
                    ELSE <<>>]

VARIABLES
  amToday,     \* Local::today()
  amSnaps,     \* what get_snapshots(None) returned
  amTaken,     \* the snapshots of amSnaps the first loop has drained
  snaps_map,   \* the snapshots with a date, by volume, oldest first
  amIdx,       \* the volumes of snaps_map the second loop has finished
  amPos,       \* the snapshots of the current volume it has dealt with
  amCount,     \* the local variable count
  printed,     \* the lines printed for the snapshots: volume, label, age, #count, [DELETE]
  to_delete,   \* the deletion worklist
  to_create,   \* the creation worklist
  amPc         \* "collect", "volumes", "done" (returned), "panicked"

amVars == <<amToday, amSnaps, amTaken, snaps_map, amIdx, amPos, amCount, printed,
            to_delete, to_create, amPc>>

\* the days the program is run on: a Sunday whose last two months hold the
\* turn of the year, and a day after the end of a leap February
Todays == {Ymd(2025, 2, 9), Ymd(2024, 4, 15)}

\* the newest snapshot of the history is of tomorrow (a clock set back), of
\* today or of yesterday
Offsets == {-1, 0, 1}

\* n snapshots of the volume, stride days apart, the newest off days old,
\* oldest first
History(volume, today, off, n, stride) ==
  [k \in 1..n |->
     SnapshotName(volume, DateString(DateOfDays(today.n - off - stride * (n - k))))]

\* format!("{}-{}-{}", year, month, day): a label without the leading zeros
PlainDateString(date) ==
  DecString(date.year) \o <<"-">> \o DecString(date.month) \o <<"-">> \o DecString(date.day)

\* what the second volume may have: nothing; a snapshot of today and one
\* without a date; two labels of yesterday's date; a label that is no date
OtherHistories(volume, today) ==
  {<<>>,
   <<SnapshotName(volume, DateString(today)), SnapshotName(volume, LabelX)>>,
   <<SnapshotName(volume, DateString(DateOfDays(today.n - 1))),
     SnapshotName(volume, PlainDateString(DateOfDays(today.n - 1)))>>,
   <<SnapshotName(volume, <<"2", "0", "2", "5", "-", "0", "2", "-", "3", "0">>)>>}

AmInit ==
  /\ amToday \in Todays
  /\ \E off \in Offsets, n \in 0..MaxDaily, stride \in 1..MaxStride :
       \E other \in OtherHistories(VolOA, amToday) :
         /\ n > MaxBeside => other = <<>>
         /\ amSnaps = History(VolPA, amToday, off, n, stride) \o other
  /\ amTaken = 0
  /\ snaps_map = [v \in {} |-> <<>>]
  /\ amIdx = 0
  /\ amPos = 0
  /\ amCount = 0
  /\ printed = <<>>
  /\ to_delete = <<>>
  /\ to_create = <<>>
  /\ amPc = "collect"

\* lines 150-159: one snapshot of all_snaps
AmCollect ==
  /\ amPc = "collect"
  /\ amTaken < Len(amSnaps)
  /\ LET r == CollectSnap(amSnaps[amTaken + 1], snaps_map)
     IN /\ snaps_map' = r.map
        /\ amPc' = IF r.kind = "Panic" THEN "panicked" ELSE amPc
  /\ amTaken' = amTaken + 1
  /\ UNCHANGED <<amToday, amSnaps, amIdx, amPos, amCount, printed, to_delete, to_create>>

\* all_snaps is drained; lines 161-162
AmCollected ==
  /\ amPc = "collect"
  /\ amTaken = Len(amSnaps)
  /\ amPc' = "volumes"
  /\ UNCHANGED <<amToday, amSnaps, amTaken, snaps_map, amIdx, amPos, amCount, printed,
                 to_delete, to_create>>

\* one turn of the inner loop, for the next snapshot of the current volume
\* of snaps_map, a BTreeMap: the volumes in order, each starting with
\* count = 0; after a volume's oldest snapshot the next volume is taken
AmSnapshot ==
  /\ amPc = "volumes"
  /\ amIdx < Cardinality(DOMAIN snaps_map)
  /\ LET volume == SortSet(DOMAIN snaps_map)[amIdx + 1]
         snaps == snaps_map[volume]
         r == SnapshotTurn(amToday, volume, snaps, Len(snaps) - amPos, amCount)
         last == amPos + 1 = Len(snaps)
     IN /\ printed' = Append(printed, r.line)
        /\ to_delete' = to_delete \o r.to_delete
        /\ to_create' = to_create \o r.to_create
        /\ amCount' = IF last THEN 0 ELSE r.count
        /\ amPos' = IF last THEN 0 ELSE amPos + 1
        /\ amIdx' = IF last THEN amIdx + 1 ELSE amIdx
  /\ UNCHANGED <<amToday, amSnaps, amTaken, snaps_map, amPc>>

\* lines 234-244: the two worklists are printed, nothing is created or
\* destroyed, and the function returns its error
AmReturn ==
  /\ amPc = "volumes"
  /\ amIdx = Cardinality(DOMAIN snaps_map)
  /\ amPc' = "done"
  /\ UNCHANGED <<amToday, amSnaps, amTaken, snaps_map, amIdx, amPos, amCount, printed,
                 to_delete, to_create>>

AmIdle ==
  /\ amToday = Ymd(2025, 2, 9)
  /\ amSnaps = <<>>
  /\ amTaken = 0
  /\ snaps_map = [v \in {} |-> <<>>]
  /\ amIdx = 0
  /\ amPos = 0
  /\ amCount = 0
  /\ printed = <<>>
  /\ to_delete = <<>>
  /\ to_create = <<>>
  /\ amPc = "done"

(***************************************************************************)
(* inheritable_pipe.rs: the pipe that carries the passphrase, and how      *)
(* ZSnapMgr::backup owns it.  The process's descriptor table is a set of   *)
(* numbers.  close_child_fd is public, so a caller may also call it while  *)
(* it holds the pipe.                                                      *)
(***************************************************************************)
MaxCloses == 2

\* the descriptor numbers of the process
Descriptors == 0..7

\* standard input, output and error
Stdio == {0, 1, 2}

NoFd == -1

\* pipe(2) hands out the lowest free descriptors
LowestFree(open) ==
  CHOOSE n \in Descriptors \ open : \A m \in Descriptors \ open : n <= m

\* libc::close(fd): the descriptor is released; -1 when it was not open
SysClose(fd, open) ==
  IF fd \in open THEN [ret |-> 0, open |-> open \ {fd}]
  ELSE [ret |-> -1, open |-> open]

\* a mutant: child_fd keeps its value after the close
CloseChildFd_Mut(p, open) ==
  IF p.child_fd # NoFd
  THEN LET c == SysClose(p.child_fd, open)
       IN [pipe |-> p, open |-> c.open, syscall |-> TRUE, ok |-> c.ret # -1]
  ELSE [pipe |-> p, open |-> open, syscall |-> FALSE, ok |-> TRUE]

\* InheritablePipe::close_child_fd
CloseChildFd(p, open) ==
  IF p.child_fd # NoFd
  THEN LET c == SysClose(p.child_fd, open)
       IN IF c.ret = -1
          THEN [pipe |-> p, open |-> c.open, syscall |-> TRUE, ok |-> FALSE]
          ELSE [pipe |-> [p EXCEPT !.child_fd = NoFd], open |-> c.open,
                syscall |-> TRUE, ok |-> TRUE]
  ELSE [pipe |-> p, open |-> open, syscall |-> FALSE, ok |-> TRUE]

\* Drop for InheritablePipe, then the drop of the field our_file; the
\* expect panics when close_child_fd failed
DropPipe(p, open) ==
  LET c == CloseChildFd(p, open)
  IN [pipe |-> [c.pipe EXCEPT !.state = "dropped"],
      open |-> c.open \ {p.our_fd},
      syscall |-> c.syscall,
      ok |-> c.ok]

VARIABLES
  ipFds,       \* the descriptors the process has open
  ip,          \* the InheritablePipe: state "none", "live" or "dropped",
               \*   child_fd, and the descriptor our_file owns
  ipMade,      \* the value child_fd got in new()
  ipClosed,    \* a close of the child's descriptor has succeeded
  ipCloses,    \* the calls of close_child_fd the caller has made
  ipCall,      \* the last run of close_child_fd: whether the descriptor was
               \*   closed before it, whether it called close(2), its result
  ipSeen,      \* what child_fd() returned for the command line
  ipPc         \* backup: "start", "piped", "written", "sending",
               \*   "returned", "panicked"

pipeVars == <<ipFds, ip, ipMade, ipClosed, ipCloses, ipCall, ipSeen, ipPc>>

NoPipe == [state |-> "none", child_fd |-> NoFd, our_fd |-> NoFd]

NoCall == [made |-> FALSE, closedBefore |-> FALSE, syscall |-> FALSE, ok |-> TRUE]

PipeInit ==
  /\ \E others \in SUBSET (Descriptors \ Stdio) : ipFds = Stdio \cup others
  /\ ip = NoPipe
  /\ ipMade = NoFd
  /\ ipClosed = FALSE
  /\ ipCloses = 0
  /\ ipCall = NoCall
  /\ ipSeen = NoFd
  /\ ipPc = "start"

\* InheritablePipe::new inside backup: pipe() fails when fewer than two
\* descriptors are free (or for another reason); a failing fcntl returns
\* with both descriptors left open and no pipe object
PipeNew ==
  /\ ipPc = "start"
  /\ \E fault \in {"none", "pipe", "fcntl"} :
       IF fault = "pipe" \/ Cardinality(Descriptors \ ipFds) < 2
       THEN /\ ipPc' = "returned"
            /\ UNCHANGED <<ipFds, ip, ipMade>>
       ELSE LET fd0 == LowestFree(ipFds)
                fd1 == LowestFree(ipFds \cup {fd0})
            IN /\ ipFds' = ipFds \cup {fd0, fd1}
               /\ IF fault = "fcntl"
                  THEN /\ ipPc' = "returned"
                       /\ UNCHANGED <<ip, ipMade>>
                  ELSE /\ ip' = [state |-> "live", child_fd |-> fd0, our_fd |-> fd1]
                       /\ ipMade' = fd0
                       /\ ipPc' = "piped"
  /\ UNCHANGED <<ipClosed, ipCloses, ipCall, ipSeen>>

\* the end of backup, by return or by unwinding: passphrase_pipe is dropped
PipeLeave(pc) ==
  LET d == DropPipe(ip, ipFds)
  IN /\ ip' = d.pipe
     /\ ipFds' = d.open
     /\ ipCall' = [made |-> TRUE, closedBefore |-> ipClosed,
                   syscall |-> d.syscall, ok |-> d.ok]
     /\ ipClosed' = (ipClosed \/ (d.syscall /\ d.ok))
     /\ ipPc' = IF d.ok THEN pc ELSE "panicked"

\* write!(passphrase_pipe, ...): on an error zfstry! returns early
PipeWrite ==
  /\ ipPc = "piped"
  /\ \E fail \in BOOLEAN :
       IF fail THEN PipeLeave("returned")
       ELSE /\ ipPc' = "written"
            /\ UNCHANGED <<ipFds, ip, ipCall, ipClosed>>
  /\ UNCHANGED <<ipMade, ipCloses, ipSeen>>

\* passphrase_pipe.child_fd() for the command line send is given
PipeChildFd ==
  /\ ipPc = "written"
  /\ ipSeen' = ip.child_fd
  /\ ipPc' = "sending"
  /\ UNCHANGED <<ipFds, ip, ipMade, ipClosed, ipCloses, ipCall>>

\* send comes back with Ok or Err, or panics
PipeSendOver ==
  /\ ipPc = "sending"
  /\ \E pc \in {"returned", "panicked"} : PipeLeave(pc)
  /\ UNCHANGED <<ipMade, ipCloses, ipSeen>>

\* a call of close_child_fd by the holder of the pipe
PipeCloseChildFd ==
  /\ ip.state = "live"
  /\ ipCloses < MaxCloses
  /\ LET c == CloseChildFd(ip, ipFds)
     IN /\ ip' = c.pipe
        /\ ipFds' = c.open
        /\ ipCall' = [made |-> TRUE, closedBefore |-> ipClosed,
                      syscall |-> c.syscall, ok |-> c.ok]
        /\ ipClosed' = (ipClosed \/ (c.syscall /\ c.ok))
  /\ ipCloses' = ipCloses + 1
  /\ UNCHANGED <<ipMade, ipSeen, ipPc>>

PipeIdle ==
  /\ ipFds = Stdio
  /\ ip = NoPipe
  /\ ipMade = NoFd
  /\ ipClosed = FALSE
  /\ ipCloses = 0
  /\ ipCall = NoCall
  /\ ipSeen = NoFd
  /\ ipPc = "returned"

(***************************************************************************)
(* zfs.rs, human_number.  A u64 does not fit TLC's integers, so a number   *)
(* is the sequence of its base-1000 limbs, most significant first and      *)
(* without leading zero limbs (0 is the empty sequence).  The f64          *)
(* arithmetic of the function is modelled on these limbs.                  *)
(***************************************************************************)
Thousand == 1000

RECURSIVE Strip(_)
Strip(x) == IF Len(x) > 0 /\ x[1] = 0 THEN Strip(Tail(x)) ELSE x

Zeros(k) == [i \in 1..k |-> 0]

\* x < y
Less(x, y) ==
  \/ Len(x) < Len(y)
  \/ /\ Len(x) = Len(y)
     /\ \E i \in 1..Len(x) : x[i] < y[i] /\ \A j \in 1..(i - 1) : x[j] = y[j]

\* x + y
Add(x, y) ==
  LET L == IF Len(x) > Len(y) THEN Len(x) ELSE Len(y)
      a == Zeros(L - Len(x)) \o x
      b == Zeros(L - Len(y)) \o y
      \* carry[i] is the carry into limb i; limb L is the least significant
      carry[i \in 1..(L + 1)] ==
        IF i = L + 1 THEN 0 ELSE (a[i] + b[i] + carry[i + 1]) \div Thousand
  IN Strip(<<IF L = 0 THEN 0 ELSE carry[1]>>
           \o [i \in 1..L |-> (a[i] + b[i] + carry[i + 1]) % Thousand])

\* x / 2 and x % 2
Halve(x) ==
  LET L == Len(x)
      rem[i \in 0..L] == IF i = 0 THEN 0 ELSE (rem[i - 1] * Thousand + x[i]) % 2
  IN [q |-> Strip([i \in 1..L |-> (rem[i - 1] * Thousand + x[i]) \div 2]),
      r |-> rem[L]]

\* 1000^k
Pow1000(k) == <<1>> \o Zeros(k)

\* 2^53: an f64 holds every whole number below it
TwoTo53 == <<9, 7, 199, 254, 740, 992>>

\* u64::MAX
U64Max == <<18, 446, 744, 73, 709, 551, 615>>

RECURSIVE Redouble(_, _)
Redouble(x, shifts) == IF shifts = 0 THEN x ELSE Redouble(Add(x, x), shifts - 1)

\* halve until 53 bits are left, round to nearest, ties to even, and scale
\* back
RECURSIVE RoundTo53(_, _, _, _)
RoundTo53(x, round, sticky, shifts) ==
  IF Less(x, TwoTo53)
  THEN LET odd == Halve(x).r = 1
           up == round = 1 /\ (sticky \/ odd)
       IN Redouble(IF up THEN Add(x, <<1>>) ELSE x, shifts)
  ELSE LET h == Halve(x)
       IN RoundTo53(h.q, h.r, sticky \/ round = 1, shifts + 1)

\* n as f64
AsF64(n) == RoundTo53(n, 0, FALSE, 0)

\* how far below 1000^k an f64 may lie with its natural logarithm still
\* within one unit in the last place of that of 1000^k: 1000^k times the
\* spacing of the f64 numbers around ln(1000^k), rounded down.  The spacing
\* is 2^-47 around ln(10^15) = 34.5 and ln(10^18) = 41.4, which gives 7 and
\* 7105; around ln(10^12) = 27.6 it is 2^-48 and the product is below 1, as
\* it is for the smaller powers.
LogSlack(k) ==
  CASE k = 5 -> <<7>>
    [] k = 6 -> <<7, 105>>
    [] OTHER -> <<>>

\* (n as f64).log(1000_f64).floor() for an f64 x >= 1.  The precision of
\* f64::log is not specified; the quotient of the two logarithms is taken to
\* be right to one unit in the last place of ln(x), so the floor is the
\* exact one, except that just below 1000^k it may already be k.  At 1000^k
\* itself it is k (test_human_number has that for k up to 4).
LogFloorOutcomes(x) ==
  LET k == Len(x) - 1
  IN {k} \cup (IF k + 1 <= 6 /\ ~Less(Add(x, LogSlack(k + 1)), Pow1000(k + 1))
               THEN {k + 1} ELSE {})

\* format!("{:.1}", x / 1000^magnitude) as the number of tenths printed: the
\* quotient rounded to one decimal.  When the exact quotient lies halfway
\* between two tenths, the f64 quotient lies a little to one side of it
\* and the printed digit goes that way; both ways are taken.
Tenths(x, magnitude) ==
  LET y == Zeros(magnitude + 1 - Len(x)) \o x
      whole == 10 * y[1] + (y[2] \div 100)
      frac == y[2] % 100
      restZero == \A i \in 3..Len(y) : y[i] = 0
  IN IF frac = 50 /\ restZero THEN {whole, whole + 1}
     ELSE IF frac >= 50 THEN {whole + 1}
     ELSE {whole}

suffixes == <<"k", "M", "G", "T", "P", "E">>

\* n.to_string()
RECURSIVE LimbString(_)
LimbString(x) ==
  IF Len(x) = 0 THEN <<>> ELSE ZeroPad(DecString(x[1]), 3) \o LimbString(Tail(x))

U64String(n) == IF n = <<>> THEN <<"0">> ELSE DecString(n[1]) \o LimbString(Tail(n))

\* format!("{:.*} {}", 1, h, suffixes[magnitude - 1])
FormatTenths(tenths, magnitude) ==
  DecString(tenths \div 10) \o <<".">> \o DecString(tenths % 10)
    \o <<" ", suffixes[magnitude]>>

\* human_number(n, 1): what it may return
HumanNumber(n) ==
  IF n = <<>> THEN {<<"0">>}
  ELSE LET x == AsF64(n)
       IN UNION {IF magnitude = 0 THEN {U64String(n)}
                 ELSE {FormatTenths(t, magnitude) : t \in Tenths(x, magnitude)}
                 : magnitude \in LogFloorOutcomes(x)}

VARIABLES
  hnN,         \* the argument n
  hnOut,       \* the string returned
  hnPc         \* "call", "done"

humanVars == <<hnN, hnOut, hnPc>>

\* the limbs the arguments are made of
TopLimbs == {1, 18, 999}
SecondLimbs == {0, 49, 50, 51, 500, 900, 949, 950, 999}
FillLimbs == {0, 999}

\* the arguments: 0, and numbers of one to seven limbs up to u64::MAX
HumanInputs ==
  {<<>>, U64Max}
  \cup {<<t>> : t \in TopLimbs}
  \cup {n \in {<<t, s>> \o [i \in 1..k |-> f] :
                 t \in TopLimbs, s \in SecondLimbs, f \in FillLimbs, k \in 0..5} :
          Less(n, U64Max)}

HumanInit ==
  /\ hnN \in HumanInputs
  /\ hnOut = <<>>
  /\ hnPc = "call"

HumanCall ==
  /\ hnPc = "call"
  /\ hnOut' \in HumanNumber(hnN)
  /\ hnPc' = "done"
  /\ UNCHANGED hnN

HumanIdle ==
  /\ hnN = <<>>
  /\ hnOut = <<>>
  /\ hnPc = "done"

(***************************************************************************)
(* gather_volumes on a directory that holds nothing but artifacts that     *)
(* backup wrote for volumes of the inventory, one of which has an          *)
(* underscore in its name.  The inventory is in ascending order.           *)
(***************************************************************************)
VolP_A == <<"p", "_", "a">>

NamingVols == {VolPA, VolP_A, VolOA}

\* lib.rs:131: the file backup writes for the snapshot volume@label
BackupFile(volume, label) == DestinationName(SnapshotName(volume, label))

NamingInit ==
  /\ volumes \in {q \in DistinctSeqs(NamingVols, MaxVols) : IsSorted(q)}
  /\ \E chosen \in SubsetsUpTo({SnapshotName(v, l) : v \in Range(volumes),
                                                     l \in {Date1, Date2}}, MaxSnaps) :
       snapshots = SortSet(chosen)
  /\ files \in SubsetsUpTo({BackupFile(v, l) : v \in Range(volumes), l \in Labels},
                           MaxFiles)
  /\ stdlib \in StdReleases
  /\ pass = 1
  /\ worklist0 = <<>>
  /\ attempts = <<>>
  /\ failed = <<>>
  /\ visited = {}
  /\ backups = Backups_new
  /\ reported = {}
  /\ fillIdx = 0
  /\ reconPc = "files"
  /\ worklist = <<>>

(***************************************************************************)
(* Specifications.  Each runs one part of the program; the variables of    *)
(* the other parts stay at their initial values.                           *)
(***************************************************************************)
vars == <<sinkVars, sendVars, reconVars, backupVars, amVars, pipeVars, humanVars>>

SendIdle ==
  /\ dir = EmptyDir
  /\ dir0 = EmptyDir
  /\ exitStatus = [signaled |-> FALSE, code |-> 0]
  /\ mainPc = "done"
  /\ result = NoResult
  /\ size = 0
  /\ nlines = 0
  /\ lastLine = <<>>
  /\ blocked = FALSE
  /\ hashPc = "failed"
  /\ hctx = <<>>
  /\ source = <<>>

\* the send/hash pipeline
SinkIdle == SinkInit

Init == SinkIdle /\ SendInit /\ ReconIdle /\ BackupIdle /\ AmIdle /\ PipeIdle /\ HumanIdle
Next ==
  \/ HashCreate /\ UNCHANGED <<sinkVars, reconVars, backupVars, amVars, pipeVars, humanVars>>
  \/ HashCopyChunk /\ UNCHANGED <<sinkVars, reconVars, backupVars, amVars, pipeVars, humanVars>>
  \/ HashReadEnd /\ UNCHANGED <<sinkVars, reconVars, backupVars, amVars, pipeVars, humanVars>>
  \/ HashWriteSidecar /\ UNCHANGED <<sinkVars, reconVars, backupVars, amVars, pipeVars, humanVars>>
  \/ SendReadLine /\ UNCHANGED <<sinkVars, reconVars, backupVars, amVars, pipeVars, humanVars>>
  \/ SendStderrEnd /\ UNCHANGED <<sinkVars, reconVars, backupVars, amVars, pipeVars, humanVars>>
  \/ SendJoin /\ UNCHANGED <<sinkVars, reconVars, backupVars, amVars, pipeVars, humanVars>>
  \/ SendWait /\ UNCHANGED <<sinkVars, reconVars, backupVars, amVars, pipeVars, humanVars>>
  \/ SendFinalize /\ UNCHANGED <<sinkVars, reconVars, backupVars, amVars, pipeVars, humanVars>>
Spec == Init /\ [][Next]_vars

\* the digest-writing sink on its own
InitSink == SinkInit /\ SendIdle /\ ReconIdle /\ BackupIdle /\ AmIdle /\ PipeIdle /\ HumanIdle
NextSink ==
  \/ SinkWrite /\ UNCHANGED <<sendVars, reconVars, backupVars, amVars, pipeVars, humanVars>>
  \/ SinkFinish /\ UNCHANGED <<sendVars, reconVars, backupVars, amVars, pipeVars, humanVars>>
SpecSink == InitSink /\ [][NextSink]_vars

\* the reconciliation
InitRecon == SinkIdle /\ SendIdle /\ ReconInit /\ BackupIdle /\ AmIdle /\ PipeIdle /\ HumanIdle
NextRecon ==
  \/ GatherFile /\ UNCHANGED <<sinkVars, sendVars, backupVars, amVars, pipeVars, humanVars>>
  \/ GatherFilesDone /\ UNCHANGED <<sinkVars, sendVars, backupVars, amVars, pipeVars, humanVars>>
  \/ GatherFill /\ UNCHANGED <<sinkVars, sendVars, backupVars, amVars, pipeVars, humanVars>>
  \/ GatherReturn /\ UNCHANGED <<sinkVars, sendVars, backupVars, amVars, pipeVars, humanVars>>
SpecRecon == InitRecon /\ [][NextRecon]_vars

\* the same pass over a directory of artifacts written by backup
InitNaming == SinkIdle /\ SendIdle /\ NamingInit /\ BackupIdle /\ AmIdle /\ PipeIdle /\ HumanIdle
SpecNaming == InitNaming /\ [][NextRecon]_vars

\* one run of the program (gather_volumes, then do_backups) and a second
\* gather_volumes on the directory the first run left
NextRerun ==
  \/ GatherFile /\ UNCHANGED <<sinkVars, sendVars, backupVars, amVars, pipeVars, humanVars>>
  \/ GatherFilesDone /\ UNCHANGED <<sinkVars, sendVars, backupVars, amVars, pipeVars, humanVars>>
  \/ GatherFill /\ UNCHANGED <<sinkVars, sendVars, backupVars, amVars, pipeVars, humanVars>>
  \/ GatherReturn /\ UNCHANGED <<sinkVars, sendVars, backupVars, amVars, pipeVars, humanVars>>
  \/ DoBackup /\ UNCHANGED <<sinkVars, sendVars, backupVars, amVars, pipeVars, humanVars>>
  \/ RunAgain /\ UNCHANGED <<sinkVars, sendVars, backupVars, amVars, pipeVars, humanVars>>
\* the first run finds nothing but artifacts in the directory
InitRerun ==
  /\ InitRecon
  /\ \A f \in files : \E stem \in {StemPA, StemA, StemPAB}, l \in Labels :
                          f = ArtifactFile(stem, l)
SpecRerun == InitRerun /\ [][NextRerun]_vars

\* two backups that differ in the passphrase
InitAutomanage == SinkIdle /\ SendIdle /\ ReconIdle /\ BackupIdle /\ AmInit /\ PipeIdle /\ HumanIdle
NextAutomanage ==
  \/ AmCollect /\ UNCHANGED <<sinkVars, sendVars, reconVars, backupVars, pipeVars, humanVars>>
  \/ AmCollected /\ UNCHANGED <<sinkVars, sendVars, reconVars, backupVars, pipeVars, humanVars>>
  \/ AmSnapshot /\ UNCHANGED <<sinkVars, sendVars, reconVars, backupVars, pipeVars, humanVars>>
  \/ AmReturn /\ UNCHANGED <<sinkVars, sendVars, reconVars, backupVars, pipeVars, humanVars>>
SpecAutomanage == InitAutomanage /\ [][NextAutomanage]_vars

InitBackup == SinkIdle /\ SendIdle /\ ReconIdle /\ BackupInit /\ AmIdle /\ PipeIdle /\ HumanIdle
NextBackup ==
  \/ \E r \in 1..2 : BackupPipeNew(r) /\ UNCHANGED <<sinkVars, sendVars, reconVars, amVars, pipeVars, humanVars>>
  \/ \E r \in 1..2 : BackupWritePassphrase(r) /\ UNCHANGED <<sinkVars, sendVars, reconVars, amVars, pipeVars, humanVars>>
  \/ \E r \in 1..2 : BackupSpawn(r) /\ UNCHANGED <<sinkVars, sendVars, reconVars, amVars, pipeVars, humanVars>>
SpecBackup == InitBackup /\ [][NextBackup]_vars

InitPipe == SinkIdle /\ SendIdle /\ ReconIdle /\ BackupIdle /\ AmIdle /\ PipeInit /\ HumanIdle
NextPipe ==
  \/ PipeNew /\ UNCHANGED <<sinkVars, sendVars, reconVars, backupVars, amVars, humanVars>>
  \/ PipeWrite /\ UNCHANGED <<sinkVars, sendVars, reconVars, backupVars, amVars, humanVars>>
  \/ PipeChildFd /\ UNCHANGED <<sinkVars, sendVars, reconVars, backupVars, amVars, humanVars>>
  \/ PipeSendOver /\ UNCHANGED <<sinkVars, sendVars, reconVars, backupVars, amVars, humanVars>>
  \/ PipeCloseChildFd /\ UNCHANGED <<sinkVars, sendVars, reconVars, backupVars, amVars, humanVars>>
SpecPipe == InitPipe /\ [][NextPipe]_vars

InitHuman == SinkIdle /\ SendIdle /\ ReconIdle /\ BackupIdle /\ AmIdle /\ PipeIdle /\ HumanInit
NextHuman == HumanCall /\ UNCHANGED <<sinkVars, sendVars, reconVars, backupVars, amVars, pipeVars>>
SpecHuman == InitHuman /\ [][NextHuman]_vars

(***************************************************************************)
(* Properties of the send/hash pipeline (checked under Spec).              *)
(***************************************************************************)
Returned == mainPc = "done"

\* the file is as it was when send was called: this call neither created
\* nor replaced it
Untouched(name) ==
  /\ (name \in DOMAIN dir) = (name \in DOMAIN dir0)
  /\ name \in DOMAIN dir => dir[name] = dir0[name]

NothingPromoted == Untouched(Dest) /\ Untouched(DestinationSidecarName(Dest))

NonZeroExit == ~exitStatus.signaled /\ exitStatus.code # 0

LoopCompleted == result.kind \notin {"Protocol", "Flush", "StderrRead"}

C2_EmptySnapshotLeavesNothing ==
  (Returned /\ result = Ok /\ nlines > 0 /\ lastLine = LineSizeZero
     /\ ExitSuccess(exitStatus)) =>
    /\ NothingPromoted
    /\ PartialName(Dest) \notin DOMAIN dir
    /\ PartialSidecarName(Dest) \notin DOMAIN dir

\* C4: after a successful send with a non-zero size, the final sidecar is the
\* hex digest of the final artifact's bytes, " *", the artifact's file name
\* and a newline, and neither partial file exists.
C4_FinalSidecarContent ==
  (Returned /\ result = Ok /\ size # 0) =>
    /\ Dest \in DOMAIN dir
    /\ DestinationSidecarName(Dest) \in DOMAIN dir
    /\ dir[DestinationSidecarName(Dest)] =
         HexString(Digest(dir[Dest])) \o <<" ", "*">> \o Dest \o <<NL>>
    /\ Len(HexString(Digest(dir[Dest]))) = 2 * Len(Digest(dir[Dest]))
    /\ PartialName(Dest) \notin DOMAIN dir
    /\ PartialSidecarName(Dest) \notin DOMAIN dir

C4_Witness ==
  /\ Returned /\ result = Ok /\ size # 0
  /\ Len(source) > 0
  /\ dir[Dest] = source

\* C5: at the step where write_file_and_sidecar returns Ok, the destination
\* file holds exactly the bytes read from the source and the sidecar holds
\* the hex encoding of their digest.
C5_WriteWithSidecarRoundTrip ==
  [][(hashPc # "ok" /\ hashPc' = "ok") =>
       /\ dir'[PartialName(Dest)] = source'
       /\ dir'[PartialSidecarName(Dest)] = HexString(Digest(source'))]_vars

\* a transfer of more than one buffer has succeeded
C5_Witness ==
  /\ hashPc = "ok"
  /\ Len(source) > BufSize
  /\ mainPc = "loop"
  /\ dir[PartialName(Dest)] = source

\* the telemetry grammar of the claim
IsUint(s) == Len(s) > 0 /\ \A i \in 1..Len(s) : s[i] \in Digits

IsClock(s) ==
  /\ Len(s) = 8
  /\ s[3] = ":" /\ s[6] = ":"
  /\ \A i \in {1, 2, 4, 5, 7, 8} : s[i] \in Digits

TelemetryWellFormed(line) ==
  \/ StartsWith(line, PfxIncremental)
  \/ StartsWith(line, PfxFull)
  \/ StartsWith(line, PfxSize) /\ IsUint(SubSeq(line, 6, Len(line)))
  \/ LET parts == Split(line, TAB)
     IN Len(parts) = 3 /\ IsClock(parts[1]) /\ IsUint(parts[2]) /\ IsUint(parts[3])

\* C7: once a line outside the telemetry grammar has been read, send has
\* returned a protocol error.
C7_MalformedLineIsProtocolError ==
  (nlines > 0 /\ ~TelemetryWellFormed(lastLine)) =>
    (Returned /\ result.kind = "Protocol")

(***************************************************************************)
(* Properties of the digest-writing sink (checked under SpecSink).         *)
(***************************************************************************)
\* C6: the hash context covers exactly the bytes the downstream sink
\* accepted, a write returns the number of bytes that were accepted, and the
\* digest finish() returns is the digest of the persisted bytes.
C6_DigestCoversOnlyPersistedBytes ==
  /\ sink.ctx = sink.inner
  /\ sinkRet >= 0 => sinkRet <= Len(sinkLast)
  /\ sinkDone => sinkDigest = Digest(sink.inner)

(***************************************************************************)
(* Properties of the reconciliation (checked under SpecRecon).             *)
(***************************************************************************)
Stems == {StemPA, StemA, StemPAB}

\* C3: when the directory holds nothing but the partial artifact and/or the
\* partial sidecar of <stem>@<L>, the worklist has no candidate whose
\* baseline is L.
C3_PartialFilesYieldNoBaseline ==
  reconPc = "done" =>
    \A stem \in Stems, L \in Labels :
      (/\ files # {}
       /\ files \subseteq {PartialName(ArtifactFile(stem, L)),
                      PartialSidecarName(ArtifactFile(stem, L))}) =>
        \A i \in 1..Len(worklist) : worklist[i].start_snapshot # Some(L)

\* the labels of the volume's snapshots that have the YYYY-MM-DD shape
DateLabelsOf(volume) ==
  {l \in Labels : IsDateLabel(l) /\ SnapshotName(volume, l) \in Range(snapshots)}

\* C9: the worklist has at most one candidate per volume, and a candidate's
\* end_snapshot is the greatest date-shaped label among the volume's
\* snapshots.
C9_OneCandidateWithLatestDate ==
  reconPc = "done" =>
    /\ \A i, j \in 1..Len(worklist) :
         worklist[i].volume = worklist[j].volume => i = j
    /\ \A i \in 1..Len(worklist) :
         LET c == worklist[i]
         IN /\ c.end_snapshot.some
            /\ c.end_snapshot.v \in DateLabelsOf(c.volume)
            /\ \A l \in DateLabelsOf(c.volume) : ~StrLess(c.end_snapshot.v, l)

\* two files resolved to the same volume, which has an older and a newer
\* date snapshot
C9_Witness ==
  /\ reconPc = "done"
  /\ files = {ArtifactFile(StemPA, Date1), ArtifactFile(StemA, Date1)}
  /\ Len(worklist) = 1
  /\ worklist[1].volume = VolPA
  /\ DateLabelsOf(VolPA) = {Date1, Date2}
  /\ worklist[1].end_snapshot = Some(Date2)

\* C10: after reconciliation every start_snapshot that is Some(L) names a
\* snapshot volume@L of the inventory, in the worklist and in the Backups
\* map it was made from.
C10_BaselineExists ==
  reconPc = "done" =>
    /\ \A i \in 1..Len(worklist) :
         worklist[i].start_snapshot.some =>
           SnapshotName(worklist[i].volume, worklist[i].start_snapshot.v)
             \in Range(snapshots)
    /\ \A v \in DOMAIN backups :
         backups[v].start_snapshot.some =>
           SnapshotName(v, backups[v].start_snapshot.v) \in Range(snapshots)

\* an artifact's baseline is gone from the inventory and the candidate is a
\* full backup
C10_Witness ==
  /\ reconPc = "done"
  /\ ArtifactFile(StemPA, Date1) \in files
  /\ SnapshotName(VolPA, Date1) \notin Range(snapshots)
  /\ Len(worklist) = 1
  /\ worklist[1].volume = VolPA
  /\ worklist[1].start_snapshot = None
  /\ worklist[1].end_snapshot = Some(Date2)

(***************************************************************************)
(* Properties of the passphrase hand-over (checked under SpecBackup).      *)
(***************************************************************************)
\* C8: the two runs, which differ only in the passphrase, give the child the
\* same program, arguments and environment and print the same line; the
\* pipe holds the passphrase followed by a newline, and the command line
\* names the pipe's descriptor after --passphrase-fd.
C8_PassphraseOnlyInPipe ==
  /\ \A r \in 1..2 :
       bk[r].pc \in {"written", "spawned"} => bk[r].pipe = bkPass[r] \o <<NL>>
  /\ \A r \in 1..2 :
       bk[r].pc = "spawned" =>
         Find(bk[r].argv[3],
              TxtPassphraseFd \o DecString(bk[r].child_fd) \o <<" ">>) # -1
  /\ (bk[1].console # <<>> /\ bk[2].console # <<>>) => bk[1].console = bk[2].console
  /\ (bk[1].pc = "spawned" /\ bk[2].pc = "spawned") =>
       /\ bk[1].argv = bk[2].argv
       /\ bk[1].env = bk[2].env

\* both runs have spawned their pipeline, one of them with a passphrase that
\* is also a word of the command line
C8_Witness ==
  /\ bk[1].pc = "spawned" /\ bk[2].pc = "spawned"
  /\ bkPass[1] = Pass1 /\ bkPass[2] = Pass2
  /\ bkIn.incremental.some
  /\ bk[1].pipe # bk[2].pipe


(***************************************************************************)
(* Properties of a second run (checked under SpecRerun).                   *)
(***************************************************************************)
\* every candidate of the first worklist was passed to backup and backup
\* returned Ok
AllBackedUp ==
  /\ Len(attempts) = Len(worklist0)
  /\ \A i \in 1..Len(attempts) : attempts[i].outcome \in {"Artifact", "Empty"}

\* no candidate of the worklist starts at the snapshot computed as its end:
\* the latest date-labelled snapshot of its volume
NoUpToDateCandidate ==
  reconPc = "done" =>
    \A i \in 1..Len(worklist) :
      LET c == worklist[i]
      IN /\ c.end_snapshot # c.start_snapshot
         /\ \A l \in DateLabelsOf(c.volume) :
              (\A m \in DateLabelsOf(c.volume) : ~StrLess(l, m)) =>
                c.start_snapshot # Some(l)

SecondRunDone == pass = 2 /\ reconPc = "done" /\ AllBackedUp

\* C11 as stated: no candidate with end_snapshot = start_snapshot is in the
\* worklist, and after every candidate was backed up successfully, with no
\* new snapshot, reconciliation yields an empty worklist.
C11_RerunYieldsEmptyWorklist ==
  /\ NoUpToDateCandidate
  /\ SecondRunDone => worklist = <<>>

SameCandidate(c, d) ==
  /\ c.volume = d.volume
  /\ c.start_snapshot = d.start_snapshot
  /\ c.end_snapshot = d.end_snapshot

\* C11, amended: no candidate with end_snapshot = start_snapshot is in the
\* worklist, and after every candidate was backed up successfully, with no
\* new snapshot, every candidate reconciliation yields is a candidate of the
\* earlier worklist, unchanged (the worklist is empty or holds nothing new).
C11_RerunEmptyOrUnchanged ==
  /\ NoUpToDateCandidate
  /\ SecondRunDone =>
       \A i \in 1..Len(worklist) :
         \E j \in 1..Len(worklist0) : SameCandidate(worklist[i], worklist0[j])

\* an incremental candidate was backed up, its artifact promoted, and the
\* second reconciliation finds the volume up to date
C11_Witness ==
  /\ SecondRunDone
  /\ Len(worklist0) = 1
  /\ worklist0[1].volume = VolPA
  /\ worklist0[1].start_snapshot = Some(Date1)
  /\ worklist0[1].end_snapshot = Some(Date2)
  /\ attempts[1].outcome = "Artifact"
  /\ ArtifactFile(StemPA, Date2) \in files
  /\ worklist = <<>>

(***************************************************************************)
(* Properties of the resolution of file names (checked under SpecRecon).   *)
(***************************************************************************)
\* the volumes of the inventory whose name ends with "/" + name
SuffixMatches(name) == {w \in Range(volumes) : EndsWith(w, <<"/">> \o name)}

\* the volume the claim resolves the stem to; {} when it resolves to none
ResolvedVolumes(stem) ==
  LET name == Replace(stem, "_", "/")
  IN IF name \in Range(volumes) THEN {name}
     ELSE IF Cardinality(SuffixMatches(name)) = 1 THEN SuffixMatches(name)
     ELSE {}

\* C12: when the first loop has ended on a directory of artifacts, every
\* file whose stem resolves (to the volume of that name, else to the single
\* volume ending with "/" + stem) has a candidate under exactly that volume
\* and is not reported; every other file is reported; and there is no
\* candidate for any other volume.
C12_FilesResolveToTheirVolume ==
  (/\ reconPc = "fill" /\ fillIdx = 0 /\ pass = 1
   /\ \A f \in files : \E stem \in Stems, l \in Labels : f = ArtifactFile(stem, l)) =>
    /\ \A stem \in Stems, l \in Labels :
         ArtifactFile(stem, l) \in files =>
           IF ResolvedVolumes(stem) = {}
           THEN ArtifactFile(stem, l) \in reported
           ELSE /\ ArtifactFile(stem, l) \notin reported
                /\ ResolvedVolumes(stem) \subseteq DOMAIN backups
    /\ DOMAIN backups =
         UNION {ResolvedVolumes(stem) :
                  stem \in {st \in Stems : \E l \in Labels : ArtifactFile(st, l) \in files}}

(***************************************************************************)
(* Properties of snapshot_automanage (checked under SpecAutomanage).       *)
(***************************************************************************)
\* the dates of the volume's date-labelled snapshots
DatesOf(volume) ==
  IF volume \in DOMAIN snaps_map
  THEN {snaps_map[volume][i].date : i \in 1..Len(snaps_map[volume])}
  ELSE {}

\* the day number of the Sunday that starts the week of the date
WeekStart(date) == date.n - ((date.n + 4) % 7)

OldestOfMonth(volume, date) ==
  \A other \in DatesOf(volume) :
    (other.year = date.year /\ other.month = date.month) => other.n >= date.n

OldestOfWeek(volume, date) ==
  \A other \in DatesOf(volume) :
    WeekStart(other) = WeekStart(date) => other.n >= date.n

\* the retention rule as the claim states it, for a snapshot dated date and
\* evaluated at rank
ToBeDeleted(volume, date, rank) ==
  \/ rank > 60 /\ ~OldestOfMonth(volume, date)
  \/ /\ 30 < rank /\ rank <= 60
     /\ ~OldestOfMonth(volume, date)
     /\ ~OldestOfWeek(volume, date)

\* the date of the snapshot a printed line is about
DateOfLine(line) ==
  LET snaps == snaps_map[line.volume]
  IN snaps[CHOOSE i \in 1..Len(snaps) : snaps[i].snap = line.snap].date

\* C13: a snapshot evaluated at a rank is on the deletion worklist exactly
\* when rank > 60 and it is not the oldest of its calendar month, or
\* 30 < rank <= 60 and it is neither the oldest of its month nor the oldest
\* of its Sunday-started week; none of rank <= 30 is flagged.
C13_RetentionDecision ==
  amPc = "done" =>
    /\ \A k \in 1..Len(printed) :
         LET line == printed[k]
             flagged == line.snap \in Range(to_delete)
         IN /\ flagged = ToBeDeleted(line.volume, DateOfLine(line), line.count)
            /\ flagged = line.delete
            /\ line.count <= 30 => ~flagged
    /\ \A s \in Range(to_delete) : \E k \in 1..Len(printed) : printed[k].snap = s

\* a history in which a snapshot past rank 60 is flagged, one between 31 and
\* 60 is flagged, and one between 31 and 60 is kept only for being the
\* oldest of its week
C13_Witness ==
  /\ amPc = "done"
  /\ \E k \in 1..Len(printed) : printed[k].count > 60 /\ printed[k].delete
  /\ \E k \in 1..Len(printed) :
       printed[k].count > 30 /\ printed[k].count <= 60 /\ printed[k].delete
  /\ \E k \in 1..Len(printed) :
       /\ printed[k].count > 30 /\ printed[k].count <= 60 /\ ~printed[k].delete
       /\ ~OldestOfMonth(printed[k].volume, DateOfLine(printed[k]))

\* the lines printed for the volume, in the order printed: newest first
LinesOf(volume) == SelectSeq(printed, LAMBDA line : line.volume = volume)

NewestOf(volume) ==
  CHOOSE d \in DatesOf(volume) : \A other \in DatesOf(volume) : other.n <= d.n

TodayLabel == DateString(amToday)

\* C14: to_create holds volume@today exactly for the volumes whose newest
\* date-labelled snapshot is not of today, once; for such a volume the
\* newest snapshot is evaluated at rank 2 and the k-th newest at rank k + 1,
\* for the others the k-th newest at rank k.
C14_CreationWorklist ==
  amPc = "done" =>
    /\ \A i, j \in 1..Len(to_create) : to_create[i] = to_create[j] => i = j
    /\ Range(to_create) =
         {SnapshotName(v, TodayLabel) : v \in {w \in DOMAIN snaps_map :
                                                 NewestOf(w).n # amToday.n}}
    /\ \A v \in DOMAIN snaps_map :
         LET lines == LinesOf(v)
             extra == IF NewestOf(v).n # amToday.n THEN 1 ELSE 0
         IN /\ Len(lines) = Cardinality(DatesOf(v))
            /\ \A k \in 1..Len(lines) :
                 /\ lines[k].count = k + extra
                 /\ \A m \in 1..Len(lines) :
                      k < m => DateOfLine(lines[k]).n > DateOfLine(lines[m]).n

\* one volume's newest snapshot is of yesterday and is evaluated at rank 2,
\* the other volume has a snapshot of today and gets no new one
C14_Witness ==
  /\ amPc = "done"
  /\ to_create = <<SnapshotName(VolPA, TodayLabel)>>
  /\ VolOA \in DOMAIN snaps_map
  /\ NewestOf(VolOA).n = amToday.n
  /\ LinesOf(VolPA)[1].count = 2
  /\ LinesOf(VolOA)[1].count = 1

\* do_backups is over: it returned, or a panic inside one backup unwound it
DoBackupsOver ==
  \/ pass = 2
  \/ reconPc = "done" /\ Len(attempts) = Len(worklist)
  \/ Len(attempts) > 0 /\ attempts[Len(attempts)].outcome = "Panic"

\* the worklist do_backups was handed
HandedWorklist == IF pass = 2 THEN worklist0 ELSE worklist

\* the volumes of the attempts that failed, in the order of the attempts
FailedAttempts == SelectSeq(attempts, LAMBDA a : a.outcome \in {"Error", "Panic"})

\* C15: when do_backups is over, every candidate of the worklist has been
\* attempted exactly once, in worklist order, whatever happened inside the
\* send of an earlier one, and a failure was reported for exactly the
\* volumes whose backup failed.
C15_FailureDoesNotStopIteration ==
  DoBackupsOver =>
    /\ Len(attempts) = Len(HandedWorklist)
    /\ \A i \in 1..Len(attempts) : attempts[i].volume = HandedWorklist[i].volume
    /\ failed = [i \in 1..Len(FailedAttempts) |-> FailedAttempts[i].volume]

(***************************************************************************)
(* Properties of the passphrase pipe (checked under SpecPipe).             *)
(***************************************************************************)
\* C16: from new() until a close succeeds, child_fd is the number it was
\* made with and that descriptor is open; a close_child_fd that runs after
\* the descriptor was closed calls close(2) not at all and returns Ok; and
\* once backup is over, however it ended, the pipe is dropped and the
\* descriptor it was made with is closed.
C16_ChildHandleLifecycle ==
  /\ (ip.state = "live" /\ ~ipClosed) => (ip.child_fd = ipMade /\ ipMade \in ipFds)
  /\ (ipCall.made /\ ipCall.closedBefore) => (~ipCall.syscall /\ ipCall.ok)
  /\ (ipPc \in {"returned", "panicked"} /\ ipMade # NoFd) =>
       (ip.state = "dropped" /\ ipMade \notin ipFds /\ ipCall.ok)

\* the caller closed the descriptor twice, backup returned early from the
\* failed write, and the drop found the descriptor closed
C16_Witness ==
  /\ ipPc = "returned"
  /\ ip.state = "dropped"
  /\ ipSeen = NoFd
  /\ ipCloses = 2
  /\ ipCall.made /\ ipCall.closedBefore
  /\ ipMade \notin ipFds

(***************************************************************************)
(* Properties of human_number (checked under SpecHuman).                   *)
(***************************************************************************)
\* 10 * x
TimesTen(x) ==
  LET x2 == Add(x, x)
      x8 == Add(Add(x2, x2), Add(x2, x2))
  IN Add(x8, x2)

\* the letter of 1000^k
PowerSuffix(k) ==
  CASE k = 1 -> "k" [] k = 2 -> "M" [] k = 3 -> "G" [] k = 4 -> "T" [] k = 5 -> "P"
    [] k = 6 -> "E"

\* s is digits, a point, one digit, a space and the letter of 1000^k, and the
\* number it shows is n / 1000^k to the nearest tenth
ShowsQuotient(s, n, k) ==
  LET dot == IndexOf(s, ".")
  IN /\ dot > 1
     /\ Len(s) = dot + 3
     /\ \A i \in 1..(dot - 1) : s[i] \in Digits
     /\ s[1] # "0" \/ dot = 2
     /\ s[dot + 1] \in Digits
     /\ s[dot + 2] = " "
     /\ s[dot + 3] = PowerSuffix(k)
     /\ LET tenths == 10 * DecValue(SubSeq(s, 1, dot - 1)) + DigitVal(s[dot + 1])
            shown == Strip(<<tenths \div Thousand, tenths % Thousand>> \o Zeros(k))
            exact == TimesTen(n)
            half == <<500>> \o Zeros(k - 1)
        IN /\ ~Less(Add(shown, half), exact)
           /\ ~Less(Add(exact, half), shown)

\* C17: human_number(n, 1) is the plain decimal of n below 1000, and from
\* 1000 on it is n divided by the largest power of 1000 not above n, with one
\* decimal place, a space and the letter of that power; 999, 1000, 1500,
\* 999900 and 1000000 give "999", "1.0 k", "1.5 k", "999.9 k" and "1.0 M".
C17_HumanNumberFormat ==
  hnPc = "done" =>
    /\ Len(hnN) <= 1 => hnOut = U64String(hnN)
    /\ Len(hnN) > 1 => ShowsQuotient(hnOut, hnN, Len(hnN) - 1)
    /\ hnN = <<999>> => hnOut = <<"9", "9", "9">>
    /\ hnN = <<1, 0>> => hnOut = <<"1", ".", "0", " ", "k">>
    /\ hnN = <<1, 500>> => hnOut = <<"1", ".", "5", " ", "k">>
    /\ hnN = <<999, 900>> => hnOut = <<"9", "9", "9", ".", "9", " ", "k">>
    /\ hnN = <<1, 0, 0>> => hnOut = <<"1", ".", "0", " ", "M">>

(***************************************************************************)
(* Properties of send's return paths (checked under Spec).                 *)
(***************************************************************************)
ReturnedError == Returned /\ result # Ok

\* C18: whenever send has returned an error, the call has neither created nor
\* replaced the final artifact or the final sidecar.
C18_ErrorReturnPromotesNothing == ReturnedError => NothingPromoted

\* the thread running write_file_and_sidecar has ended
HashTaskOver == hashPc \in {"ok", "failed"}

\* C19: whenever send has returned, with Ok or with any error, the hashing
\* task has terminated.
C19_HashTaskOverAtReturn == Returned => HashTaskOver

\* C20: send returns the protocol error for a rejected telemetry line only
\* from its wait for the child's exit, after the exit code was looked at,
\* not from the loop that read the line.
C20_RejectedLineStillAwaitsExit ==
  [][(mainPc # "done" /\ mainPc' = "done" /\ result' = Failure("Protocol"))
       => mainPc \in {"wait", "finalize"}]_vars

\* C21: send is never left waiting for a child that is stuck on a full pipe:
\* while send joins the hashing task and waits for the child's exit, standard
\* error is still being drained, also after a `size\t0` line.
C21_ChildNeverBlockedWhileAwaited == ~(blocked /\ mainPc \in {"join", "wait"})

(***************************************************************************)
(* Properties of write_file_and_sidecar inside send (checked under Spec).  *)
(***************************************************************************)
\* the partial sidecar is not as it was one step before
SidecarTouched ==
  \/ (PartialSidecarName(Dest) \in DOMAIN dir') # (PartialSidecarName(Dest) \in DOMAIN dir)
  \/ /\ PartialSidecarName(Dest) \in DOMAIN dir
     /\ PartialSidecarName(Dest) \in DOMAIN dir'
     /\ dir'[PartialSidecarName(Dest)] # dir[PartialSidecarName(Dest)]

\* a is the beginning of b
IsPrefix(a, b) == Len(a) <= Len(b) /\ SubSeq(b, 1, Len(a)) = a

\* C22: a step of write_file_and_sidecar touches the sidecar only when the
\* source was read to its end and the file holds every byte read; the step
\* that returns the error of a read, a write or a short write touches no
\* sidecar and leaves in the file what was written, the part of the last
\* chunk that got through included.
C22_SidecarOnlyAfterFullCopy ==
  [][/\ (hashPc' # hashPc /\ SidecarTouched) =>
          (hashPc = "finish" /\ dir[PartialName(Dest)] = source)
     /\ (hashPc = "read" /\ hashPc' = "failed") =>
          /\ ~SidecarTouched
          /\ PartialName(Dest) \in DOMAIN dir'
          /\ IsPrefix(dir[PartialName(Dest)], dir'[PartialName(Dest)])
          /\ IsPrefix(dir'[PartialName(Dest)], source')]_vars

\* a short write ended the copy: part of what was read is in the file, and
\* there is no sidecar
C22_Witness ==
  /\ hashPc = "failed"
  /\ PartialName(Dest) \in DOMAIN dir
  /\ Len(dir[PartialName(Dest)]) > 0
  /\ Len(dir[PartialName(Dest)]) < Len(source)
  /\ PartialSidecarName(Dest) \notin DOMAIN dir

(***************************************************************************)
(* Properties of the Backups map (checked under SpecRecon).                *)
(***************************************************************************)
\* what the first loop of gather_volumes inserts for one file: the map that
\* Backups::insert makes of the empty map (empty when the file is passed over)
InsertOf(file_path) ==
  ProcessFile(Backups_new, volumes, file_path,
              BinarySearch(volumes, DenormalizedStem(file_path), stdlib)).backups

\* the inserts made so far for the volume
InsertsFor(volume) ==
  {InsertOf(f)[volume] : f \in {g \in visited : volume \in DOMAIN InsertOf(g)}}

\* C23: while the first loop runs, the map has one entry for each volume an
\* insert was made for; the entry's start_snapshot is the greatest label
\* inserted for the volume, and its filename_base is the one every insert of
\* that label supplied, so that the entry does not depend on the order of
\* the inserts.
C23_GreatestLabelKept ==
  reconPc = "files" =>
    /\ DOMAIN backups = {v \in Range(volumes) : InsertsFor(v) # {}}
    /\ \A v \in DOMAIN backups :
         /\ backups[v].start_snapshot.some
         /\ \A i \in InsertsFor(v) :
              /\ ~StrLess(backups[v].start_snapshot.v, i.start_snapshot.v)
              /\ i.start_snapshot = backups[v].start_snapshot
                   => i.filename_base = backups[v].filename_base

(***************************************************************************)
(* More properties of send (checked under Spec).                           *)
(***************************************************************************)
\* C24: when send has returned Ok and the pipeline wrote at least one byte
\* to standard output, the final artifact exists and holds exactly the bytes
\* written, whatever standard error said about the size.
C24_SuccessKeepsCapturedData ==
  (Returned /\ result = Ok /\ Len(source) > 0) =>
    (Dest \in DOMAIN dir /\ dir[Dest] = source)

(***************************************************************************)
(* Properties of the file names (checked under SpecNaming).                *)
(***************************************************************************)
\* C25: for every volume V of the inventory and every label L, the file
\* that backup writes for V@L is resolved by the first loop of
\* gather_volumes to the volume V with the start snapshot L.
C25_NamingRoundTrip ==
  \A v \in Range(volumes), l \in Labels :
    BackupFile(v, l) \in visited =>
      /\ DOMAIN InsertOf(BackupFile(v, l)) = {v}
      /\ InsertOf(BackupFile(v, l))[v].start_snapshot = Some(l)

(***************************************************************************)
(* More properties of gather_volumes (checked under SpecRecon).            *)
(***************************************************************************)
\* C26: gather_volumes never aborts: whatever the inventory and the
\* directory hold, the pass does not end in a panic, also for a volume that
\* an artifact matches and that has no snapshot with a date label.
C26_ReconciliationCompletes == reconPc # "panicked"

\* C27: for every volume and every calendar month in which the volume has a
\* snapshot with a date, the oldest snapshot of that month is not on the
\* deletion worklist and its line is not flagged, whatever its rank; so the
\* volume's oldest snapshot is never flagged.
C27_OldestOfMonthKept ==
  amPc = "done" =>
    \A v \in DOMAIN snaps_map :
      /\ \A i \in 1..Len(snaps_map[v]) :
           OldestOfMonth(v, snaps_map[v][i].date) =>
             /\ snaps_map[v][i].snap \notin Range(to_delete)
             /\ \A k \in 1..Len(printed) :
                  printed[k].snap = snaps_map[v][i].snap => ~printed[k].delete
      /\ snaps_map[v][1].snap \notin Range(to_delete)

\* a volume whose oldest snapshot was evaluated past rank 60 and kept, while
\* a later snapshot of the same month, also past rank 60, was flagged
C27_Witness ==
  /\ amPc = "done"
  /\ \E v \in DOMAIN snaps_map :
       \E k, m \in 1..Len(printed) :
         /\ printed[k].snap = snaps_map[v][1].snap
         /\ printed[k].count > 60
         /\ ~printed[k].delete
         /\ printed[m].volume = v
         /\ printed[m].count > 60
         /\ printed[m].delete
         /\ DateOfLine(printed[m]).year = DateOfLine(printed[k]).year
         /\ DateOfLine(printed[m]).month = DateOfLine(printed[k]).month
====
